---- MODULE Spec2Model ----
(***************************************************************************)
(* A model of the resource-allocation core of qcli: the PCI bus slot       *)
(* allocator (PCIBus), the index registry (QemuIndex / QemuTypeIndex) and  *)
(* the assembly of the qemu command line (ConfigureParams).                *)
(*                                                                         *)
(* Strings the code parses are modelled as sequences of one-character      *)
(* strings, so that strconv.Atoi is computed and not assumed.              *)
(***************************************************************************)
EXTENDS Integers, Sequences, FiniteSets, TLC

VARIABLES bus, last, returned, nReturned, lastAuto,
          qti, lastIdx, handed, recorded,
          config, result, phase,
          probe

vars == <<bus, last, returned, nReturned, lastAuto, qti, lastIdx, handed, recorded,
          config, result, phase, probe>>
busVars == <<bus, last, returned, nReturned, lastAuto>>
idxVars == <<qti, lastIdx, handed, recorded>>
asmVars == <<config, result, phase>>
trVars == <<probe>>

(***************************************************************************)
(* strconv.Atoi, as parseBusAddrString and NetDevice use it                *)
(***************************************************************************)
Digits == {"0", "1", "2", "3", "4", "5", "6", "7", "8", "9"}

DigitVal(c) ==
    CASE c = "0" -> 0 [] c = "1" -> 1 [] c = "2" -> 2 [] c = "3" -> 3
      [] c = "4" -> 4 [] c = "5" -> 5 [] c = "6" -> 6 [] c = "7" -> 7
      [] c = "8" -> 8 [] c = "9" -> 9

RECURSIVE DecVal(_)
DecVal(s) == IF s = <<>> THEN 0 ELSE 10 * DecVal(SubSeq(s, 1, Len(s) - 1)) + DigitVal(s[Len(s)])

AllDigits(s) == Len(s) > 0 /\ \A i \in 1..Len(s) : s[i] \in Digits

\* strconv.IntSize: the width of int on the build that runtime.GOARCH names
IntSizeOf(arch) == IF arch \in {"386", "arm"} THEN 32 ELSE 64

\* the decimal digits of the largest int of the build
MaxIntDigits(intSize) ==
    IF intSize = 32
    THEN <<"2", "1", "4", "7", "4", "8", "3", "6", "4", "7">>
    ELSE <<"9", "2", "2", "3", "3", "7", "2", "0", "3", "6", "8", "5", "4", "7", "7", "5", "8", "0", "7">>

\* the decimal digits of the magnitude of the smallest int of the build
MinIntDigits(intSize) ==
    [MaxIntDigits(intSize) EXCEPT ![Len(MaxIntDigits(intSize))] = "8"]

\* a digit string without its leading zeros ("0" for zero)
RECURSIVE StripZeros(_)
StripZeros(s) == IF Len(s) > 1 /\ s[1] = "0" THEN StripZeros(Tail(s)) ELSE s

\* a < b for two digit strings without leading zeros
RECURSIVE DecLess(_, _)
DecLess(a, b) ==
    IF Len(a) # Len(b) THEN Len(a) < Len(b)
    ELSE IF a = <<>> THEN FALSE
    ELSE IF a[1] # b[1] THEN DigitVal(a[1]) < DigitVal(b[1])
    ELSE DecLess(Tail(a), Tail(b))

\* a number as an integer of the model, whose integers are those of a 32-bit
\* int: exact within that range; a number beyond it (a 64-bit int holds it)
\* stands as the nearest of them and is carried digit by digit in the mag
\* field of the result
IntOf(neg, mag) ==
    IF ~DecLess(MaxIntDigits(32), mag) THEN (IF neg THEN 0 - DecVal(mag) ELSE DecVal(mag))
    ELSE IF neg THEN 0 - DecVal(MaxIntDigits(32)) - 1
    ELSE DecVal(MaxIntDigits(32))

\* strconv.Atoi on a build whose int has intSize bits: an optional sign
\* followed by at least one decimal digit, anything else is a syntax error
\* (value 0); a number the int cannot hold is a range error (value: the
\* nearest int)
Atoi(s, intSize) ==
    LET neg == s # <<>> /\ s[1] = "-"
        body == IF s # <<>> /\ s[1] \in {"+", "-"} THEN Tail(s) ELSE s
        mag == StripZeros(body)
        limit == IF neg THEN MinIntDigits(intSize) ELSE MaxIntDigits(intSize)
    IN  IF ~AllDigits(body)
        THEN [ok |-> FALSE, err |-> "syntax", val |-> 0, neg |-> FALSE, mag |-> <<"0">>]
        ELSE IF DecLess(limit, mag)
        THEN [ok |-> FALSE, err |-> "range", val |-> IntOf(neg, limit), neg |-> neg, mag |-> limit]
        ELSE [ok |-> TRUE, err |-> "nil", val |-> IntOf(neg, mag), neg |-> neg /\ mag # <<"0">>,
              mag |-> mag]

(***************************************************************************)
(* PCIBus                                                                  *)
(***************************************************************************)
PCISlotMax == 31
PCISlotOffset == 3

\* type PCIBus [PCISlotMax]bool: the indices of the array
BusIndex == 0..(PCISlotMax - 1)

EmptyBus == [s \in BusIndex |-> FALSE]

\* the text after the first "/" (toks[1] of strings.Split), or s when it has none
RECURSIVE AfterSlash(_)
AfterSlash(s) ==
    IF s = <<>> THEN <<>>
    ELSE IF s[1] = "/" THEN Tail(s) ELSE AfterSlash(Tail(s))

RECURSIVE UpToSlash(_)
UpToSlash(s) ==
    IF s = <<>> \/ s[1] = "/" THEN <<>> ELSE <<s[1]>> \o UpToSlash(Tail(s))

HasSlash(s) == \E i \in 1..Len(s) : s[i] = "/"

\* strings.Replace(s, old, "", -1) for a two-character old: every
\* non-overlapping occurrence, found from left to right, is removed
RECURSIVE RemoveAll(_, _)
RemoveAll(s, old) ==
    IF Len(s) < 2 THEN s
    ELSE IF s[1] = old[1] /\ s[2] = old[2] THEN RemoveAll(SubSeq(s, 3, Len(s)), old)
    ELSE <<s[1]>> \o RemoveAll(Tail(s), old)

\* the two replacements of parseBusAddrString: every "0x" goes, then every
\* "0X" of what is left
StripHex(s) == RemoveAll(RemoveAll(s, <<"0", "x">>), <<"0", "X">>)

\* what the function would return if it converted the cleaned-up addrString
parseBusAddrString_Cleaned(addr, intSize) ==
    LET addrString == StripHex(IF HasSlash(addr) THEN UpToSlash(AfterSlash(addr)) ELSE addr)
        r == Atoi(addrString, intSize)
    IN  IF r.ok THEN r.val ELSE -1

\* parseBusAddrString builds addrString but converts the original addr; an
\* error of strconv.Atoi (syntax or range) gives -1
parseBusAddrString(addr, intSize) ==
    LET r == Atoi(addr, intSize)
    IN  IF r.ok THEN r.val ELSE -1

\* SetSlot: an error above PCISlotMax, an index-out-of-range panic for a slot
\* that is not an index of the array, otherwise the slot is marked
SetSlot(b, slot) ==
    IF slot > PCISlotMax THEN [bus |-> b, err |-> "range", panic |-> FALSE]
    ELSE IF slot \notin BusIndex THEN [bus |-> b, err |-> "nil", panic |-> TRUE]
    ELSE [bus |-> [b EXCEPT ![slot] = TRUE], err |-> "nil", panic |-> FALSE]

\* the slots the automatic search visits, PCISlotMax-1 down to PCISlotOffset+1
SearchRange == { s \in BusIndex : s > PCISlotOffset }

\* a search that starts at the bottom of the range
AutoSearch_Ascending(b) ==
    LET free == { s \in SearchRange : ~b[s] }
    IN  IF free = {} THEN -1 ELSE CHOOSE s \in free : \A t \in free : s <= t

\* the for loop of GetSlot: the first free slot met going down, -1 when none
AutoSearch(b) ==
    LET free == { s \in SearchRange : ~b[s] }
    IN  IF free = {} THEN -1 ELSE CHOOSE s \in free : \A t \in free : t <= s

\* GetSlot without the test of the requested slot's status
GetSlot_NoStatusCheck(b, busAddr, intSize) ==
    LET slot == IF busAddr # <<>> THEN parseBusAddrString(busAddr, intSize) ELSE -1
        auto == AutoSearch(b)
    IN  IF busAddr # <<>> /\ slot > 0 /\ slot \notin BusIndex
        THEN [bus |-> b, slot |-> -1, panic |-> TRUE]
        ELSE IF busAddr # <<>> /\ slot > 0
        THEN [bus |-> SetSlot(b, slot).bus, slot |-> slot, panic |-> FALSE]
        ELSE IF auto = -1
        THEN [bus |-> b, slot |-> -1, panic |-> FALSE]
        ELSE [bus |-> SetSlot(b, auto).bus, slot |-> auto, panic |-> FALSE]

\* GetSlot: an explicit address that parses to a slot > 0 is used when that
\* slot is free (reading bus[slot] panics outside the array); every other case
\* runs the automatic search
GetSlot(b, busAddr, intSize) ==
    LET slot == IF busAddr # <<>> THEN parseBusAddrString(busAddr, intSize) ELSE -1
        auto == AutoSearch(b)
    IN  IF busAddr # <<>> /\ slot > 0 /\ slot \notin BusIndex
        THEN [bus |-> b, slot |-> -1, panic |-> TRUE]
        ELSE IF busAddr # <<>> /\ slot > 0 /\ ~b[slot]
        THEN [bus |-> SetSlot(b, slot).bus, slot |-> slot, panic |-> FALSE]
        ELSE IF auto = -1
        THEN [bus |-> b, slot |-> -1, panic |-> FALSE]
        ELSE [bus |-> SetSlot(b, auto).bus, slot |-> auto, panic |-> FALSE]

\* 2^32: more than a 32-bit int holds, within a 64-bit int
TwoTo32 == <<"4", "2", "9", "4", "9", "6", "7", "2", "9", "6">>

\* 2^63: one more than the largest 64-bit int
TwoTo63 ==
    <<"9", "2", "2", "3", "3", "7", "2", "0", "3", "6", "8", "5", "4", "7", "7", "5", "8", "0", "8">>

\* the addresses callers pass: empty, decimal (slot 0, a reserved slot, a middle
\* slot, the top slot, one past the array, numbers beyond a 32-bit and a
\* 64-bit int), hex and PCI forms
BusAddrs ==
    { <<>>, <<"0">>, <<"3">>, <<"7">>, <<"3", "0">>, <<"3", "1">>,
      <<"0", "x", "5">>, <<"0", "0", ":", "0", "4", ".", "0">>, TwoTo32, TwoTo63 }

\* the build the allocator is exercised on by itself
HostArch == "amd64"

SetSlotArgs == {-1, 7, PCISlotMax, PCISlotMax + 1}

\* the record of the last call: its operation and argument, what it returned,
\* the bus before it and the slot the previous automatic call returned
NoCall == [op |-> "none", addr |-> <<>>, arg |-> 0, slot |-> -1, err |-> "nil",
           panic |-> FALSE, pre |-> EmptyBus, prevAuto |-> PCISlotMax]

InitBus ==
    /\ bus = EmptyBus
    /\ last = NoCall
    /\ returned = {}
    /\ nReturned = 0
    /\ lastAuto = PCISlotMax

\* one call of bus.GetSlot(busAddr)
GetSlotCall(busAddr) ==
    LET r == GetSlot(bus, busAddr, IntSizeOf(HostArch))
    IN  /\ bus' = r.bus
        /\ last' = [op |-> "GetSlot", addr |-> busAddr, arg |-> 0, slot |-> r.slot,
                    err |-> "nil", panic |-> r.panic, pre |-> bus, prevAuto |-> lastAuto]
        /\ returned' = IF r.slot >= 0 THEN returned \cup {r.slot} ELSE returned
        /\ nReturned' = IF r.slot >= 0 THEN nReturned + 1 ELSE nReturned
        /\ lastAuto' = IF busAddr = <<>> /\ r.slot >= 0 THEN r.slot ELSE lastAuto

\* one call of bus.SetSlot(slot)
SetSlotCall(slot) ==
    LET r == SetSlot(bus, slot)
    IN  /\ bus' = r.bus
        /\ last' = [op |-> "SetSlot", addr |-> <<>>, arg |-> slot, slot |-> -1,
                    err |-> r.err, panic |-> r.panic, pre |-> bus, prevAuto |-> lastAuto]
        /\ UNCHANGED <<returned, nReturned, lastAuto>>

NextBus ==
    \/ \E a \in BusAddrs : GetSlotCall(a) /\ UNCHANGED <<idxVars, asmVars, trVars>>
    \/ \E s \in SetSlotArgs : SetSlotCall(s) /\ UNCHANGED <<idxVars, asmVars, trVars>>

(***************************************************************************)
(* QemuIndex and QemuTypeIndex                                             *)
(***************************************************************************)
MaxIndex == 2

\* category keys: the empty one is rejected by the code
QTypes == {"", "drive", "net"}

SetMax(S) == CHOOSE m \in S : \A n \in S : n <= m

\* bit.Set.Contains: the set holds non-negative integers only, so no negative
\* number is an element
Contains(bits, n) == n >= 0 /\ n \in bits

\* bit.Set.Add: adding a negative number leaves the set as it is
Add(bits, n) == IF n < 0 THEN bits ELSE bits \cup {n}

\* QemuIndex.Set: an error when the set contains the index, otherwise the
\* index is added and nil returned; a negative index is never contained and
\* never added, so Set returns nil for it and the set stays as it was
QemuIndex_Set(bits, index) ==
    IF Contains(bits, index)
    THEN [bits |-> bits, err |-> "already set"]
    ELSE [bits |-> Add(bits, index), err |-> "nil"]

\* QemuIndex.Next that hands out the current maximum again
QemuIndex_Next_NoIncrement(bits) ==
    IF bits = {}
    THEN [bits |-> QemuIndex_Set(bits, 0).bits, ret |-> 0]
    ELSE [bits |-> QemuIndex_Set(bits, SetMax(bits)).bits, ret |-> SetMax(bits)]

\* QemuIndex.Next: 0 on an empty set, otherwise Max()+1; the value is Set
QemuIndex_Next(bits) ==
    IF bits = {}
    THEN [bits |-> QemuIndex_Set(bits, 0).bits, ret |-> 0]
    ELSE [bits |-> QemuIndex_Set(bits, SetMax(bits) + 1).bits, ret |-> SetMax(bits) + 1]

\* NewQemuTypeIndex: a map without keys
NewQemuTypeIndex == [q \in QTypes |-> [present |-> FALSE, bits |-> {}]]

\* a lookup that replaces the key's index by a new one on every call
Ensure_AlwaysNew(m, qtype) == [m EXCEPT ![qtype] = [present |-> TRUE, bits |-> {}]]

\* qti[qtype] = NewQemuIndex() when the key is missing
Ensure(m, qtype) ==
    IF m[qtype].present THEN m ELSE [m EXCEPT ![qtype] = [present |-> TRUE, bits |-> {}]]

\* QemuTypeIndex.Next: -1 for the empty key, otherwise Next of the key's index
QemuTypeIndex_Next(m, qtype) ==
    IF qtype = "" THEN [qti |-> m, ret |-> -1]
    ELSE LET m1 == Ensure(m, qtype)
             r == QemuIndex_Next(m1[qtype].bits)
         IN  [qti |-> [m1 EXCEPT ![qtype].bits = r.bits], ret |-> r.ret]

\* QemuTypeIndex.Set: an error for the empty key, otherwise Set of the key's index
QemuTypeIndex_Set(m, qtype, index) ==
    IF qtype = "" THEN [qti |-> m, err |-> "empty qtype"]
    ELSE LET m1 == Ensure(m, qtype)
             r == QemuIndex_Set(m1[qtype].bits, index)
         IN  [qti |-> [m1 EXCEPT ![qtype].bits = r.bits], err |-> r.err]

NoIdxCall == [op |-> "none", qtype |-> "", index |-> 0, ret |-> -1, err |-> "nil",
              pre |-> NewQemuTypeIndex, preHanded |-> {}, preRecorded |-> {}]

InitIndex ==
    /\ qti = NewQemuTypeIndex
    /\ lastIdx = NoIdxCall
    /\ handed = {}
    /\ recorded = {}

\* one call of qti.Next(qtype); the values handed out stay within MaxIndex.
\* handed keeps every (category, value) pair a Next call returned, recorded
\* every pair a Set call returned nil for
NextCall(qtype) ==
    LET r == QemuTypeIndex_Next(qti, qtype)
    IN  /\ r.ret <= MaxIndex
        /\ qti' = r.qti
        /\ lastIdx' = [op |-> "Next", qtype |-> qtype, index |-> 0, ret |-> r.ret,
                       err |-> "nil", pre |-> qti, preHanded |-> handed,
                       preRecorded |-> recorded]
        /\ handed' = handed \cup {<<qtype, r.ret>>}
        /\ UNCHANGED recorded

\* the indices Set is called with: an int, negative ones included
IndexArgs == -1..MaxIndex

\* one call of qti.Set(qtype, index)
SetCall(qtype, index) ==
    LET r == QemuTypeIndex_Set(qti, qtype, index)
    IN  /\ qti' = r.qti
        /\ lastIdx' = [op |-> "Set", qtype |-> qtype, index |-> index, ret |-> -1,
                       err |-> r.err, pre |-> qti, preHanded |-> handed,
                       preRecorded |-> recorded]
        /\ recorded' = IF r.err = "nil" THEN recorded \cup {<<qtype, index>>} ELSE recorded
        /\ UNCHANGED handed

NextIndex ==
    \/ \E q \in QTypes : NextCall(q) /\ UNCHANGED <<busVars, asmVars, trVars>>
    \/ \E q \in QTypes, i \in IndexArgs : SetCall(q, i) /\ UNCHANGED <<busVars, asmVars, trVars>>

(***************************************************************************)
(* VirtioTransport                                                         *)
(***************************************************************************)
TransportPCI == "pci"
TransportCCW == "ccw"
TransportMMIO == "mmio"
MachineTypeMicrovm == "microvm"

\* a default that does not look at the machine type
defaultTransport_AnyMachine(c) == IF c.GOARCH = "s390x" THEN TransportCCW ELSE TransportPCI

\* defaultTransport: a function of runtime.GOARCH and config.Machine.Type
defaultTransport(c) ==
    IF c.GOARCH \in {"amd64", "386"}
    THEN IF c.Machine.Type = MachineTypeMicrovm THEN TransportMMIO ELSE TransportPCI
    ELSE IF c.GOARCH = "s390x" THEN TransportCCW
    ELSE TransportPCI

\* the transport a method works with: the field, or the default when it is empty
resolved(transport, c) == IF transport = "" THEN defaultTransport(c) ELSE transport

\* getName: the name of the transport in use
getName(transport, c) == resolved(transport, c)

isVirtioPCI(transport, c) == resolved(transport, c) = TransportPCI

isVirtioCCW(transport, c) == resolved(transport, c) = TransportCCW

\* a fragment that is offered under every transport
disableModern_AnyTransport(transport, c, disable) ==
    IF disable THEN "disable-modern=true" ELSE "disable-modern=false"

disableModern(transport, c, disable) ==
    IF ~isVirtioPCI(transport, c) THEN ""
    ELSE IF disable THEN "disable-modern=true" ELSE "disable-modern=false"

(***************************************************************************)
(* Devices and their rendering.  A rendered flag/value pair is a record:   *)
(* the flag, the category that emitted it, the device's ID and driver      *)
(* name, the text of its addr= and bus= fragments (empty when absent) and  *)
(* the set of its other fragments.                                         *)
(***************************************************************************)
HexDigit(n) ==
    CASE n = 0 -> "0" [] n = 1 -> "1" [] n = 2 -> "2" [] n = 3 -> "3"
      [] n = 4 -> "4" [] n = 5 -> "5" [] n = 6 -> "6" [] n = 7 -> "7"
      [] n = 8 -> "8" [] n = 9 -> "9" [] n = 10 -> "a" [] n = 11 -> "b"
      [] n = 12 -> "c" [] n = 13 -> "d" [] n = 14 -> "e" [] n = 15 -> "f"

RECURSIVE HexStr(_)
HexStr(n) == IF n < 16 THEN <<HexDigit(n)>> ELSE HexStr(n \div 16) \o <<HexDigit(n % 16)>>

\* fmt.Sprintf("0x%02x", n) for n >= 0
Hex02(n) == <<"0", "x">> \o (IF n < 16 THEN <<"0">> ELSE <<>>) \o HexStr(n)

\* a digit string divided by 16, digit by digit: the quotient (as long as
\* the dividend, leading zeros kept) and the remainder
RECURSIVE Div16(_)
Div16(s) ==
    IF s = <<>> THEN [q |-> <<>>, r |-> 0]
    ELSE LET p == Div16(SubSeq(s, 1, Len(s) - 1))
             cur == 10 * p.r + DigitVal(s[Len(s)])
         IN  [q |-> p.q \o <<HexDigit(cur \div 16)>>, r |-> cur % 16]

\* the hexadecimal digits of the number a digit string writes
RECURSIVE HexOfDec(_)
HexOfDec(s) ==
    LET d == Div16(s)
    IN  IF StripZeros(d.q) = <<"0">> THEN <<HexDigit(d.r)>>
        ELSE HexOfDec(StripZeros(d.q)) \o <<HexDigit(d.r)>>

\* fmt.Sprintf("0x%02x", n) for the n >= 0 that the digit string mag writes
Hex02Dec(mag) ==
    <<"0", "x">> \o (IF Len(HexOfDec(mag)) < 2 THEN <<"0">> ELSE <<>>) \o HexOfDec(mag)

\* strings.HasPrefix
HasPrefix(s, prefix) == Len(s) >= Len(prefix) /\ SubSeq(s, 1, Len(prefix)) = prefix

Tok(flag, cat, text) ==
    [flag |-> flag, cat |-> cat, id |-> "", driver |-> "", addr |-> <<>>, bus |-> "",
     opts |-> {}, text |-> text, frags |-> <<>>]

DevTok(flag, cat, d, driver, addr, busName, opts) ==
    [flag |-> flag, cat |-> cat, id |-> d.ID, driver |-> driver, addr |-> addr,
     bus |-> busName, opts |-> opts, text |-> "", frags |-> <<>>]

VirtioBlock == "virtio-blk"
SCSIHD == "scsi-hd"
IDECDROM == "ide-cd"
VirtioRng == "virtio-rng"
VirtioSerial == "virtio-serial"
PCISerialDevice == "pci-serial"
VirtioNet == "virtio-net"
PCIeRootPort == "pcie-root-port"

LegacySerial == "serial"
Socket == "socket"
File == "file"
Stdio == "stdio"

\* the kinds whose Valid() asks for a Driver besides the ID
NeedsDriver == {"ide", "usb", "blk", "rng", "serial"}

\* LegacySerialDevice.Valid and MonitorDevice.Valid: without a Backend
\* exactly one of Name and ChardevID, with one the socket backend and a Path;
\* a legacy serial device multiplexed with the monitor is always valid
ConsoleValid(d) ==
    IF d.kind = "legacyserial" /\ d.MonMux THEN TRUE
    ELSE IF d.Backend = ""
    THEN ~(d.Name = "" /\ d.ChardevID = "") /\ ~(d.Name # "" /\ d.ChardevID # "")
    ELSE d.Backend = Socket /\ d.Path # ""

\* SerialDevice.Valid: Driver and ID; a pci-serial device has one to four
\* chardevs, the first of them named, and 1, 2 or 4 ports
SerialValid(d) ==
    /\ d.Driver # ""
    /\ d.ID # ""
    /\ d.Driver = PCISerialDevice =>
         /\ Len(d.ChardevIDs) \in 1..4
         /\ d.ChardevIDs[1] # ""
         /\ d.MaxPorts \in {1, 2, 4}

\* Valid() of a device: the required ID and Driver; a character device needs
\* a Path unless its backend is stdio; a spice device needs exactly one of
\* Port and TLSPort, a TPM all its fields
Valid(d) ==
    IF d.kind = "spice" THEN (d.Port # "" \/ d.TLSPort # "") /\ ~(d.Port # "" /\ d.TLSPort # "")
    ELSE IF d.kind = "tpm"
    THEN d.ID # "" /\ d.Driver # "" /\ d.Path # "" /\ d.Type \in {"emulator", "passthrough"}
    ELSE IF d.kind \in {"legacyserial", "monitor"} THEN ConsoleValid(d)
    ELSE IF d.kind = "serial" THEN SerialValid(d)
    ELSE IF d.kind = "char" THEN d.ID # "" /\ (d.Backend = Stdio \/ d.Path # "")
    ELSE IF d.ID = "" THEN FALSE
    ELSE IF d.kind \in NeedsDriver /\ d.Driver = "" THEN FALSE
    ELSE TRUE

romfileOpt(d, c) == IF isVirtioPCI(d.Transport, c) /\ d.ROMFile # "" THEN {"romfile"} ELSE {}

devnoOpt(d, c) == IF isVirtioCCW(d.Transport, c) THEN {"devno"} ELSE {}

modernOpt(d, c) ==
    IF disableModern(d.Transport, c, d.DisableModern) # ""
    THEN {disableModern(d.Transport, c, d.DisableModern)} ELSE {}

defaultBus(d, dflt) == IF d.Bus # "" THEN d.Bus ELSE dflt

\* PCIeRootPortDevice.QemuParams: bus and addr are the caller's, with defaults
RootPortParams(d, c) ==
    <<DevTok("-device", "rootport", d, PCIeRootPort,
             IF d.Addr = <<>> THEN <<"0", "x", "0", "0">> ELSE d.Addr,
             defaultBus(d, "pcie.0"), romfileOpt(d, c))>>

\* SCSIControllerDevice.QemuParams, given the slot GetSlot returned
SCSIParams(d, c, addr) ==
    <<DevTok("-device", "scsi", d,
             CASE resolved(d.Transport, c) = TransportPCI -> "virtio-scsi-pci"
               [] resolved(d.Transport, c) = TransportCCW -> "virtio-scsi-ccw"
               [] resolved(d.Transport, c) = TransportMMIO -> "virtio-scsi-device"
               [] OTHER -> "",
             IF addr > 0 THEN Hex02(addr) ELSE <<>>,
             IF addr > 0 THEN defaultBus(d, "pcie.0") ELSE "",
             modernOpt(d, c) \cup romfileOpt(d, c) \cup devnoOpt(d, c))>>

\* IDEControllerDevice.QemuParams
IDEParams(d, c, addr) ==
    <<DevTok("-device", "ide", d, d.Driver,
             IF addr > 0 THEN Hex02(addr) ELSE <<>>,
             IF addr > 0 THEN defaultBus(d, "pcie.0") ELSE "",
             IF d.ROMFile # "" THEN {"romfile"} ELSE {})>>

\* USBControllerDevice.QemuParams: no bus fragment
USBParams(d, c, addr) ==
    <<DevTok("-device", "usb", d, d.Driver,
             IF addr > 0 THEN Hex02(addr) ELSE <<>>, "",
             IF d.ROMFile # "" THEN {"romfile"} ELSE {})>>

blkDeviceName(d, c) ==
    IF d.Driver = VirtioBlock
    THEN CASE resolved(d.Transport, c) = TransportPCI -> "virtio-blk-pci"
           [] resolved(d.Transport, c) = TransportCCW -> "virtio-blk-ccw"
           [] resolved(d.Transport, c) = TransportMMIO -> "virtio-blk-device"
           [] OTHER -> ""
    ELSE d.Driver

\* BlockDevice.QemuParams: the -drive pair, then the -device pair; only a
\* virtio-blk device asks the bus for a slot (addr is -1 otherwise)
BlkParams(d, c, addr) ==
    <<DevTok("-drive", "blk", d, "", <<>>, "", {}),
      DevTok("-device", "blk", d, blkDeviceName(d, c),
             IF d.Driver = VirtioBlock /\ addr > 0 THEN Hex02(addr) ELSE <<>>,
             IF d.Driver = VirtioBlock /\ addr > 0 THEN defaultBus(d, "pcie.0")
             ELSE IF d.Driver = SCSIHD /\ d.Bus # "" THEN d.Bus
             ELSE IF d.Driver = IDECDROM THEN defaultBus(d, "ide.0")
             ELSE "",
             (IF d.Driver = VirtioBlock THEN modernOpt(d, c) ELSE {})
                \cup romfileOpt(d, c) \cup devnoOpt(d, c))>>

rngDeviceName(d, c) ==
    IF d.Driver # VirtioRng THEN d.Driver
    ELSE CASE resolved(d.Transport, c) = TransportPCI -> "virtio-rng-pci"
           [] resolved(d.Transport, c) = TransportCCW -> "virtio-rng-ccw"
           [] resolved(d.Transport, c) = TransportMMIO -> "virtio-rng-device"
           [] OTHER -> ""

\* an RNG device rendered without its address
RngParams_NoAddr(d, c, addr) ==
    <<DevTok("-object", "rng", d, "rng-random", <<>>, "", {}),
      DevTok("-device", "rng", d, rngDeviceName(d, c), <<>>, d.Bus,
             romfileOpt(d, c) \cup devnoOpt(d, c))>>

\* RngDevice.QemuParams: the -object pair, then the -device pair
RngParams(d, c, addr) ==
    <<DevTok("-object", "rng", d, "rng-random", <<>>, "", {}),
      DevTok("-device", "rng", d, rngDeviceName(d, c),
             IF addr > 0 THEN Hex02(addr) ELSE <<>>, d.Bus,
             romfileOpt(d, c) \cup devnoOpt(d, c))>>

netDriver(d, c) ==
    IF d.Driver # VirtioNet THEN d.Driver
    ELSE CASE resolved(d.Transport, c) = TransportPCI -> "virtio-net-pci"
           [] resolved(d.Transport, c) = TransportCCW -> "virtio-net-ccw"
           [] resolved(d.Transport, c) = TransportMMIO -> "virtio-net-device"
           [] OTHER -> ""

\* the addr= fragment of a network device: the caller's Addr when
\* strconv.Atoi converts it without error to a number >= 0, printed in hex
netAddr(d, c) ==
    LET r == Atoi(d.Addr, IntSizeOf(c.GOARCH))
    IN  IF d.Addr # <<>> /\ r.ok /\ ~r.neg THEN Hex02Dec(r.mag) ELSE <<>>

\* NetDevice.QemuParams for a user-mode device: the -netdev pair, then the
\* -device pair unless the driver name is empty; the bus is not consulted;
\* disable-modern is offered to every driver whose name starts with "virtio"
NetParams(d, c) ==
    <<DevTok("-netdev", "net", d, "user", <<>>, "", {})>> \o
    (IF netDriver(d, c) = "" THEN <<>>
     ELSE <<DevTok("-device", "net", d, netDriver(d, c), netAddr(d, c), d.Bus,
                   (IF HasPrefix(netDriver(d, c), "virtio") THEN modernOpt(d, c) ELSE {})
                      \cup romfileOpt(d, c) \cup devnoOpt(d, c))>>)

\* VirtioSerialTransport[transport]: the empty string for a transport that
\* is not a key of the map
VirtioSerialTransport(transport) ==
    CASE transport = TransportPCI -> "virtio-serial-pci"
      [] transport = TransportCCW -> "virtio-serial-ccw"
      [] transport = TransportMMIO -> "virtio-serial-device"
      [] OTHER -> ""

\* SerialDevice.deviceName: by transport for virtio-serial, by the number of
\* ports for pci-serial, empty for every other Driver
serialDeviceName(d, c) ==
    IF d.Driver = PCISerialDevice
    THEN PCISerialDevice \o (IF d.MaxPorts = 2 THEN "-2x" ELSE IF d.MaxPorts = 4 THEN "-4x" ELSE "")
    ELSE IF d.Driver = VirtioSerial THEN VirtioSerialTransport(resolved(d.Transport, c))
    ELSE ""

\* the chardev fragments of a pci-serial device
serialChardevs(d) ==
    IF d.MaxPorts = 1 THEN <<<<"chardev", d.ChardevIDs[1]>>>>
    ELSE <<<<"chardev1", d.ChardevIDs[1]>>>>
         \o (IF Len(d.ChardevIDs) > 1 /\ d.ChardevIDs[2] # ""
             THEN <<<<"chardev2", d.ChardevIDs[2]>>>> ELSE <<>>)
         \o (IF d.MaxPorts = 4 /\ Len(d.ChardevIDs) > 2 /\ d.ChardevIDs[3] # ""
             THEN <<<<"chardev3", d.ChardevIDs[3]>>>> ELSE <<>>)
         \o (IF d.MaxPorts = 4 /\ Len(d.ChardevIDs) = 4 /\ d.ChardevIDs[4] # ""
             THEN <<<<"chardev4", d.ChardevIDs[4]>>>> ELSE <<>>)

\* SerialDevice.QemuParams: one -device pair; the name is deviceName's, Addr
\* is copied as it is
SerialParams(d, c) ==
    <<[DevTok("-device", "serial", d, serialDeviceName(d, c), d.Addr, "",
              (IF d.ROMFile # "" /\ (d.Driver = PCISerialDevice \/ isVirtioPCI(d.Transport, c))
               THEN {"romfile"} ELSE {})
                \cup (IF d.Multifunction THEN {"multifunction=on"} ELSE {})
                \cup (IF d.Driver = VirtioSerial THEN modernOpt(d, c) \cup devnoOpt(d, c) ELSE {}))
        EXCEPT !.frags =
          IF d.Driver = VirtioSerial
          THEN IF isVirtioPCI(d.Transport, c) /\ d.MaxPorts # 0
               THEN <<<<"max_ports", d.MaxPorts>>>> ELSE <<>>
          ELSE IF d.Driver = PCISerialDevice THEN serialChardevs(d)
          ELSE <<>>]>>

\* getConfigOnOff: key=value for "on" and "off", nothing for the empty
\* string; any other value ends the process (log.Fatalf)
getConfigOnOff(paramKey, paramVal) ==
    IF paramVal \in {"on", "off"} THEN {paramKey \o "=" \o paramVal} ELSE {}

OnOffFatal(paramVal) == paramVal \notin {"", "on", "off"}

\* CharDevice.deviceName
charDeviceName(d, c) ==
    IF d.Driver = VirtioSerial THEN VirtioSerialTransport(resolved(d.Transport, c)) ELSE d.Driver

\* the -device pair of a character device: chardev= is the device's ID, id=
\* its DeviceID
charDevicePair(d, c) ==
    [DevTok("-device", "char", d, charDeviceName(d, c), <<>>, d.Bus,
            IF d.Driver = VirtioSerial
            THEN modernOpt(d, c) \cup romfileOpt(d, c) \cup devnoOpt(d, c) ELSE {})
       EXCEPT !.frags = <<<<"chardev", d.ID>>, <<"id", d.DeviceID>>>>
                        \o (IF d.Name # "" THEN <<<<"name", d.Name>>>> ELSE <<>>)]

\* the -chardev pair: the backend, the ID, the path of a socket or a file
charBackendPair(d) ==
    [DevTok("-chardev", "char", d, d.Backend, <<>>, "",
            getConfigOnOff("mux", d.Mux) \cup getConfigOnOff("signal", d.Signal))
       EXCEPT !.text = IF d.Backend = Socket THEN "path=" \o d.Path \o ",server=on,wait=off"
                       ELSE IF d.Backend = File THEN "path=" \o d.Path
                       ELSE ""]

\* CharDevice.QemuParams: the -device pair unless the Driver is serial or
\* pci-serial, "-serial none" for pci-serial, then the -chardev pair
CharParams(d, c) ==
    (IF d.Driver \notin {LegacySerial, PCISerialDevice} THEN <<charDevicePair(d, c)>> ELSE <<>>)
    \o (IF d.Driver = PCISerialDevice
        THEN <<[DevTok("-serial", "char", d, "", <<>>, "", {}) EXCEPT !.text = "none"]>>
        ELSE <<>>)
    \o <<charBackendPair(d)>>

\* the value of -serial and of -monitor: a unix socket, a name or a chardev
consoleValue(d) ==
    IF d.Backend = Socket THEN "unix:" \o d.Path \o ",server=on,wait=off"
    ELSE IF d.Name # "" /\ d.ChardevID = "" THEN d.Name
    ELSE IF d.ChardevID # "" /\ d.Name = "" THEN "chardev:" \o d.ChardevID
    ELSE ""

\* LegacySerialDevice.QemuParams: one -serial pair
LegacySerialParams(d, c) ==
    <<[DevTok("-serial", "legacyserial", d, "", <<>>, "", {})
         EXCEPT !.text = IF d.MonMux THEN "mon:stdio" ELSE consoleValue(d)]>>

\* MonitorDevice.QemuParams: one -monitor pair
MonitorParams(d, c) ==
    <<[DevTok("-monitor", "monitor", d, "", <<>>, "", {}) EXCEPT !.text = consoleValue(d)]>>

\* the kinds whose QemuParams call config.pciBusSlots.GetSlot
Allocates(d) == d.kind \in {"scsi", "ide", "usb", "rng"} \/ (d.kind = "blk" /\ d.Driver = VirtioBlock)

\* d.QemuParams(config) on bus b: the pairs, the GetSlot result and the bus after
QemuParams(d, c, b) ==
    IF Allocates(d)
    THEN LET r == GetSlot(b, d.Addr, IntSizeOf(c.GOARCH))
         IN  IF r.panic THEN [params |-> <<>>, bus |-> b, slots |-> <<>>, panic |-> TRUE]
             ELSE [params |-> CASE d.kind = "scsi" -> SCSIParams(d, c, r.slot)
                                [] d.kind = "ide" -> IDEParams(d, c, r.slot)
                                [] d.kind = "usb" -> USBParams(d, c, r.slot)
                                [] d.kind = "rng" -> RngParams(d, c, r.slot)
                                [] d.kind = "blk" -> BlkParams(d, c, r.slot),
                   bus |-> r.bus, slots |-> <<r.slot>>, panic |-> FALSE]
    ELSE IF d.kind = "char" /\ (OnOffFatal(d.Mux) \/ OnOffFatal(d.Signal))
    THEN [params |-> <<>>, bus |-> b, slots |-> <<>>, panic |-> TRUE]
    ELSE [params |-> CASE d.kind = "rootport" -> RootPortParams(d, c)
                       [] d.kind = "blk" -> BlkParams(d, c, -1)
                       [] d.kind = "net" -> NetParams(d, c)
                       [] d.kind = "serial" -> SerialParams(d, c)
                       [] d.kind = "char" -> CharParams(d, c)
                       [] d.kind = "legacyserial" -> LegacySerialParams(d, c)
                       [] d.kind = "monitor" -> MonitorParams(d, c)
                       [] d.kind = "spice" ->
                            <<DevTok("-spice", "spice", d, "", <<>>, "", {}),
                              DevTok("-device", "spice", d, "virtio-serial-pci", <<>>, "", {}),
                              DevTok("-device", "spice", d, "virtserialport", <<>>, "", {}),
                              DevTok("-chardev", "spice", d, "spicevmc", <<>>, "", {})>>
                       [] d.kind = "tpm" ->
                            <<DevTok("-chardev", "tpm", d, "socket", <<>>, "", {}),
                              DevTok("-tpmdev", "tpm", d, d.Type, <<>>, "", {}),
                              DevTok("-device", "tpm", d,
                                     IF d.Driver = "tpm-tis" /\ c.GOARCH \in {"aarch64", "arm64"}
                                     THEN "tpm-tis-device" ELSE d.Driver, <<>>, "", {})>>
                       [] d.kind = "uefi" ->
                            <<DevTok("-drive", "uefi", d, "", <<>>, "", {"code"}),
                              DevTok("-drive", "uefi", d, "", <<>>, "", {"vars"})>>,
          bus |-> b, slots |-> <<>>, panic |-> FALSE]

(***************************************************************************)
(* Config and ConfigureParams                                              *)
(***************************************************************************)
\* the device collections of Config in the order appendDevices visits them:
\* the first loop takes the root ports and the controllers, the second loop
\* the remaining collections, both in the order of the fields of Config
FirstLoop == <<"PCIeRootPortDevices", "SCSIControllerDevices", "IDEControllerDevices",
               "USBControllerDevices">>
\* a second loop that takes every collection, the controllers once more
SecondLoop_Unfiltered ==
    <<"RngDevices", "BlkDevices", "NetDevices", "CharDevices", "LegacySerialDevices",
      "SerialDevices", "MonitorDevices", "PCIeRootPortDevices", "UEFIFirmwareDevices",
      "SCSIControllerDevices", "IDEControllerDevices", "USBControllerDevices">>

\* a second loop in the order of the cases of its switch
SecondLoop_CaseOrder ==
    <<"BlkDevices", "CharDevices", "LegacySerialDevices", "MonitorDevices", "NetDevices",
      "RngDevices", "SerialDevices", "UEFIFirmwareDevices">>

SecondLoop == <<"RngDevices", "BlkDevices", "NetDevices", "CharDevices",
                "LegacySerialDevices", "SerialDevices", "MonitorDevices",
                "UEFIFirmwareDevices">>

RECURSIVE Collect(_, _)
Collect(c, fields) ==
    IF fields = <<>> THEN <<>> ELSE c[Head(fields)] \o Collect(c, Tail(fields))

appendName(c) ==
    IF c.Name # "" THEN [c EXCEPT !.qemuParams = @ \o <<Tok("-name", "name", c.Name)>>] ELSE c

appendUUID(c) ==
    IF c.UUID # "" THEN [c EXCEPT !.qemuParams = @ \o <<Tok("-uuid", "uuid", c.UUID)>>] ELSE c

appendMachine(c) ==
    IF c.Machine.Type # ""
    THEN [c EXCEPT !.qemuParams = @ \o <<Tok("-machine", "machine", c.Machine.Type)>>] ELSE c

appendCPUModel(c) ==
    IF c.CPUModel # "" THEN [c EXCEPT !.qemuParams = @ \o <<Tok("-cpu", "cpu", c.CPUModel)>>] ELSE c

\* appendSpice and appendTPM add to config.devices, not to config.qemuParams
appendSpice(c) ==
    IF c.SpiceDevice.Port # "" \/ c.SpiceDevice.TLSPort # ""
    THEN [c EXCEPT !.devices = Append(@, c.SpiceDevice)] ELSE c

appendTPM(c) ==
    IF c.TPM.ID # "" THEN [c EXCEPT !.devices = Append(@, c.TPM)] ELSE c

\* the lower-case form of a one-character string
LowerChar(ch) ==
    CASE ch = "A" -> "a" [] ch = "B" -> "b" [] ch = "C" -> "c" [] ch = "D" -> "d"
      [] ch = "E" -> "e" [] ch = "F" -> "f" [] ch = "G" -> "g" [] ch = "H" -> "h"
      [] ch = "I" -> "i" [] ch = "J" -> "j" [] ch = "K" -> "k" [] ch = "L" -> "l"
      [] ch = "M" -> "m" [] ch = "N" -> "n" [] ch = "O" -> "o" [] ch = "P" -> "p"
      [] ch = "Q" -> "q" [] ch = "R" -> "r" [] ch = "S" -> "s" [] ch = "T" -> "t"
      [] ch = "U" -> "u" [] ch = "V" -> "v" [] ch = "W" -> "w" [] ch = "X" -> "x"
      [] ch = "Y" -> "y" [] ch = "Z" -> "z" [] OTHER -> ch

\* strings.ToLower, character by character
RECURSIVE ToLower(_)
ToLower(s) ==
    IF Len(s) = 0 THEN s
    ELSE LowerChar(SubSeq(s, 1, 1)) \o ToLower(SubSeq(s, 2, Len(s)))

\* SMBIOSInfo.Valid, for the UEFI field of the BIOS table: unset, or "on" or
\* "off" in any capitalisation
SMBIOSValid(smb) == smb.UEFI = "" \/ ToLower(smb.UEFI) \in {"on", "off"}

\* the BIOS table prints the UEFI field as it was given
appendSMBIOSInfo(c) ==
    IF ~SMBIOSValid(c.SMBIOS) THEN [c |-> c, err |-> "smbios"]
    ELSE [c |-> IF c.SMBIOS.UEFI # ""
                THEN [c EXCEPT !.qemuParams =
                        @ \o <<Tok("-smbios", "smbios", "type=0,uefi=" \o c.SMBIOS.UEFI)>>]
                ELSE c,
          err |-> "nil"]

QMPValid(q) == q.Type # "" /\ q.Name # "" /\ q.Type = "unix"

RECURSIVE QMPParams(_)
QMPParams(qs) ==
    IF qs = <<>> THEN <<>>
    ELSE (IF QMPValid(Head(qs)) THEN <<Tok("-qmp", "qmp", Head(qs).Name)>> ELSE <<>>)
         \o QMPParams(Tail(qs))

appendQMPSockets(c) ==
    [c |-> [c EXCEPT !.qemuParams = @ \o QMPParams(c.QMPSockets)],
     err |-> IF \E i \in 1..Len(c.QMPSockets) : ~QMPValid(c.QMPSockets[i]) THEN "qmp" ELSE "nil"]

appendMemory(c) ==
    IF c.Memory.Size # "" THEN [c EXCEPT !.qemuParams = @ \o <<Tok("-m", "memory", c.Memory.Size)>>]
    ELSE c

\* a loop that gives up at the first device whose Valid() fails
RECURSIVE RenderAll_StopAtFirst(_, _, _)
RenderAll_StopAtFirst(devs, c, st) ==
    IF devs = <<>> \/ st.panic THEN st
    ELSE IF ~Valid(Head(devs)) THEN [st EXCEPT !.errors = @ + 1]
    ELSE CHOOSE out \in
           { RenderAll_StopAtFirst(Tail(devs), c, nxt) :
               nxt \in { CHOOSE n \in
                           { [bus |-> r.bus, params |-> st.params \o r.params,
                              errors |-> st.errors, slots |-> st.slots \o r.slots,
                              panic |-> r.panic] :
                             r \in { QemuParams(Head(devs), c, st.bus) } } : TRUE } } : TRUE

\* the validate-and-render loop of appendDevices over devs, from state
\* st = [bus, params, errors, slots, panic]; a panic ends the loop.  Each
\* device sees the state its predecessor left (bound once, in a singleton set)
RECURSIVE RenderAll(_, _, _)
RenderAll(devs, c, st) ==
    IF devs = <<>> \/ st.panic THEN st
    ELSE CHOOSE out \in
           { RenderAll(Tail(devs), c, nxt) :
               nxt \in { IF ~Valid(Head(devs))
                         THEN [st EXCEPT !.errors = @ + 1]
                         ELSE CHOOSE n \in
                                { [bus |-> r.bus, params |-> st.params \o r.params,
                                   errors |-> st.errors, slots |-> st.slots \o r.slots,
                                   panic |-> r.panic] :
                                  r \in { QemuParams(Head(devs), c, st.bus) } } : TRUE } } : TRUE

\* a device stage that reports no error for the devices it left out
appendDevices_BestEffort(c) ==
    CHOOSE out \in
      { [c |-> [c EXCEPT !.devices = devs, !.pciBusSlots = st.bus,
                         !.qemuParams = @ \o st.params],
         err |-> "nil", errors |-> st.errors, slots |-> st.slots, panic |-> st.panic] :
        devs \in { c.devices \o Collect(c, FirstLoop) \o Collect(c, SecondLoop) },
        st \in { RenderAll(c.devices \o Collect(c, FirstLoop) \o Collect(c, SecondLoop), c,
                           [bus |-> c.pciBusSlots, params |-> <<>>, errors |-> 0,
                            slots |-> <<>>, panic |-> FALSE]) } } : TRUE

\* a device stage that starts every run from an empty bus
appendDevices_FreshBus(c) ==
    CHOOSE out \in
      { [c |-> [c EXCEPT !.devices = devs, !.pciBusSlots = st.bus,
                         !.qemuParams = @ \o st.params],
         err |-> IF st.errors > 0 THEN "devices" ELSE "nil",
         errors |-> st.errors, slots |-> st.slots, panic |-> st.panic] :
        devs \in { c.devices \o Collect(c, FirstLoop) \o Collect(c, SecondLoop) },
        st \in { RenderAll(c.devices \o Collect(c, FirstLoop) \o Collect(c, SecondLoop), c,
                           [bus |-> EmptyBus, params |-> <<>>, errors |-> 0,
                            slots |-> <<>>, panic |-> FALSE]) } } : TRUE

\* appendDevices: the collections are appended to config.devices, every
\* device of config.devices is validated and, when valid, rendered
appendDevices(c) ==
    CHOOSE out \in
      { [c |-> [c EXCEPT !.devices = devs, !.pciBusSlots = st.bus,
                         !.qemuParams = @ \o st.params],
         err |-> IF st.errors > 0 THEN "devices" ELSE "nil",
         errors |-> st.errors, slots |-> st.slots, panic |-> st.panic] :
        devs \in { c.devices \o Collect(c, FirstLoop) \o Collect(c, SecondLoop) },
        st \in { RenderAll(c.devices \o Collect(c, FirstLoop) \o Collect(c, SecondLoop), c,
                           [bus |-> c.pciBusSlots, params |-> <<>>, errors |-> 0,
                            slots |-> <<>>, panic |-> FALSE]) } } : TRUE

RTCValid(rtc) == rtc.Clock \in {"host", "rt", "vm"} /\ rtc.DriftFix \in {"slew", "none"}

appendRTC(c) ==
    IF RTCValid(c.RTC) THEN [c EXCEPT !.qemuParams = @ \o <<Tok("-rtc", "rtc", c.RTC.Clock)>>]
    ELSE c

RECURSIVE Toks(_, _, _)
Toks(flag, cat, texts) ==
    IF texts = <<>> THEN <<>> ELSE <<Tok(flag, cat, Head(texts))>> \o Toks(flag, cat, Tail(texts))

appendGlobalParams(c) == [c EXCEPT !.qemuParams = @ \o Toks("-global", "global", c.GlobalParams)]

appendPFlashParam(c) == [c EXCEPT !.qemuParams = @ \o Toks("-pflash", "pflash", c.PFlash)]

appendVGA(c) ==
    IF c.VGA # "" THEN [c EXCEPT !.qemuParams = @ \o <<Tok("-vga", "vga", c.VGA)>>] ELSE c

\* a host test that takes every machine type for NUMA capable
isDimmSupported_AnyMachine(c) == c.GOARCH \in {"amd64", "386", "ppc64le", "arm64"}

isDimmSupported(c) ==
    IF c.GOARCH \in {"amd64", "386", "ppc64le", "arm64"}
    THEN c.Machine.Type # MachineTypeMicrovm
    ELSE FALSE

\* the value of the memory-backend -object: its kind in text, its
\* comma-separated fragments in frags
objMemParam(c) ==
    [Tok("-object", "knobs",
         IF c.Knobs.HugePages \/ (c.Knobs.FileBackedMem /\ c.Memory.Path # "")
         THEN "memory-backend-file" ELSE "memory-backend-ram")
       EXCEPT !.id = "dimm1",
              !.frags = <<<<"size", c.Memory.Size>>>>
                        \o (IF c.Knobs.HugePages THEN <<<<"mem-path", "/dev/hugepages">>>>
                            ELSE IF c.Knobs.FileBackedMem /\ c.Memory.Path # ""
                                 THEN <<<<"mem-path", c.Memory.Path>>>> ELSE <<>>)
                        \o (IF c.Knobs.MemShared THEN <<<<"share", "on">>>> ELSE <<>>)
                        \o (IF c.Knobs.MemPrealloc THEN <<<<"prealloc", "on">>>> ELSE <<>>)]

appendMemoryKnobs(c) ==
    IF c.Memory.Size = "" THEN c
    ELSE [c EXCEPT !.qemuParams = @ \o
            <<objMemParam(c),
              IF isDimmSupported(c) THEN Tok("-numa", "knobs", "node,memdev=dimm1")
              ELSE Tok("-machine", "knobs", "memory-backend=dimm1")>>]

appendKnobs(c) ==
    LET c1 == appendMemoryKnobs(c)
    IN  IF c1.Knobs.NoGraphic
        THEN [c1 EXCEPT !.qemuParams = @ \o <<Tok("-nographic", "knobs", "")>>] ELSE c1

appendKernel(c) ==
    IF c.Kernel.Path # "" THEN [c EXCEPT !.qemuParams = @ \o <<Tok("-kernel", "kernel", c.Kernel.Path)>>]
    ELSE c

appendBios(c) ==
    IF c.Bios # "" THEN [c EXCEPT !.qemuParams = @ \o <<Tok("-bios", "bios", c.Bios)>>] ELSE c

appendIOThreads(c) ==
    [c EXCEPT !.qemuParams = @ \o Toks("-object", "iothread", SelectSeq(c.IOThreads, LAMBDA t : t # ""))]

MigrationFD == 1
MigrationExec == 2
MigrationDefer == 3

\* appendFDs: the files are added to config.fds; the descriptor the qemu
\* process sees for the first of them is its position in config.fds plus 3
appendFDs(c, fds) == [c |-> [c EXCEPT !.fds = @ \o fds], first |-> Len(c.fds) + 3]

\* appendIncoming: "-S", "-incoming" and the URI of the migration type: the
\* command, the descriptor of the file (handed to appendFDs) or "defer";
\* nothing for any other type
appendIncoming(c) ==
    IF c.Incoming.MigrationType = MigrationExec
    THEN [c EXCEPT !.qemuParams = @ \o <<Tok("-S", "incoming", ""),
                                          Tok("-incoming", "incoming", "exec:" \o c.Incoming.Exec)>>]
    ELSE IF c.Incoming.MigrationType = MigrationFD
    THEN LET r == appendFDs(c, <<c.Incoming.FD>>)
         IN  [r.c EXCEPT !.qemuParams = @ \o <<Tok("-S", "incoming", ""),
                                              Tok("-incoming", "incoming", "fd:" \o ToString(r.first))>>]
    ELSE IF c.Incoming.MigrationType = MigrationDefer
    THEN [c EXCEPT !.qemuParams = @ \o <<Tok("-S", "incoming", ""), Tok("-incoming", "incoming", "defer")>>]
    ELSE c

appendPidFile(c) ==
    IF c.PidFile # "" THEN [c EXCEPT !.qemuParams = @ \o <<Tok("-pidfile", "pidfile", c.PidFile)>>] ELSE c

appendLogFile(c) ==
    IF c.LogFile # "" THEN [c EXCEPT !.qemuParams = @ \o <<Tok("-D", "logfile", c.LogFile)>>] ELSE c

FwCfgValid(f) == f.Name # "" /\ ~(f.File # "" /\ f.Str # "") /\ ~(f.File = "" /\ f.Str = "")

\* the fragments one entry adds to fwcfgParams
FwCfgFrags(f) ==
    IF f.Name = "" THEN <<>>
    ELSE <<<<"name", f.Name>>>>
         \o (IF f.File # "" THEN <<<<"file", f.File>>>> ELSE <<>>)
         \o (IF f.Str # "" THEN <<<<"string", f.Str>>>> ELSE <<>>)

\* fwcfgParams after the first n entries of config.FwCfg
RECURSIVE FwCfgJoined(_, _)
FwCfgJoined(all, n) ==
    IF n = 0 THEN <<>> ELSE FwCfgJoined(all, n - 1) \o FwCfgFrags(all[n])

\* FwCfg.QemuParams walks all of config.FwCfg: one pair per entry, each
\* carrying the fragments of the entries up to it
RECURSIVE FwCfgPairs(_, _)
FwCfgPairs(all, n) ==
    IF n = 0 THEN <<>>
    ELSE FwCfgPairs(all, n - 1) \o
         <<[Tok("-fw_cfg", "fwcfg", "") EXCEPT !.frags = FwCfgJoined(all, n)]>>

RECURSIVE FwCfgAll(_, _)
FwCfgAll(all, rest) ==
    IF rest = <<>> THEN <<>>
    ELSE (IF FwCfgValid(Head(rest)) THEN FwCfgPairs(all, Len(all)) ELSE <<>>)
         \o FwCfgAll(all, Tail(rest))

appendFwCfg(c) == [c EXCEPT !.qemuParams = @ \o FwCfgAll(c.FwCfg, c.FwCfg)]

appendSeccompSandbox(c) ==
    IF c.SeccompSandbox # ""
    THEN [c EXCEPT !.qemuParams = @ \o <<Tok("-sandbox", "sandbox", c.SeccompSandbox)>>] ELSE c

\* the value of -smp: the CPU count, then maxcpus= when it is set
SMPParams(smp) ==
    <<<<"", smp.CPUs>>>> \o (IF smp.MaxCPUs > 0 THEN <<<<"maxcpus", smp.MaxCPUs>>>> ELSE <<>>)

\* a CPU stage that never compares MaxCPUs with CPUs
appendCPUs_Unchecked(c) ==
    IF c.SMP.CPUs > 0
    THEN [c |-> [c EXCEPT !.qemuParams =
                    @ \o <<[Tok("-smp", "smp", "") EXCEPT !.frags = SMPParams(c.SMP)]>>],
          err |-> "nil"]
    ELSE [c |-> c, err |-> "nil"]

appendCPUs(c) ==
    IF c.SMP.CPUs > 0
    THEN IF c.SMP.MaxCPUs > 0 /\ c.SMP.MaxCPUs < c.SMP.CPUs
         THEN [c |-> c, err |-> "cpus"]
         ELSE [c |-> [c EXCEPT !.qemuParams =
                         @ \o <<[Tok("-smp", "smp", "") EXCEPT !.frags = SMPParams(c.SMP)]>>],
               err |-> "nil"]
    ELSE [c |-> c, err |-> "nil"]

\* an order of the stages with the CPU topology first
Stages_CPUsFirst ==
    << "cpus", "name", "uuid", "machine", "cpumodel", "spice", "tpm", "smbios", "qmp", "memory",
       "devices", "rtc", "global", "pflash", "vga", "knobs", "kernel", "bios", "iothreads",
       "incoming", "pidfile", "logfile", "fwcfg", "sandbox" >>

\* an order of the stages with the devices ahead of the SMBIOS and QMP stages
Stages_DevicesEarly ==
    << "name", "uuid", "machine", "cpumodel", "spice", "tpm", "devices", "smbios", "qmp",
       "memory", "rtc", "global", "pflash", "vga", "knobs", "kernel", "bios", "iothreads",
       "incoming", "pidfile", "logfile", "fwcfg", "sandbox", "cpus" >>

\* the stages of ConfigureParams in the order of its calls
Stages ==
    << "name", "uuid", "machine", "cpumodel", "spice", "tpm", "smbios", "qmp", "memory",
       "devices", "rtc", "global", "pflash", "vga", "knobs", "kernel", "bios", "iothreads",
       "incoming", "pidfile", "logfile", "fwcfg", "sandbox", "cpus" >>

\* the stages that cannot fail, by name
Plain(stage, c) ==
    CASE stage = "name" -> appendName(c)
      [] stage = "uuid" -> appendUUID(c)
      [] stage = "machine" -> appendMachine(c)
      [] stage = "cpumodel" -> appendCPUModel(c)
      [] stage = "spice" -> appendSpice(c)
      [] stage = "tpm" -> appendTPM(c)
      [] stage = "memory" -> appendMemory(c)
      [] stage = "rtc" -> appendRTC(c)
      [] stage = "global" -> appendGlobalParams(c)
      [] stage = "pflash" -> appendPFlashParam(c)
      [] stage = "vga" -> appendVGA(c)
      [] stage = "knobs" -> appendKnobs(c)
      [] stage = "kernel" -> appendKernel(c)
      [] stage = "bios" -> appendBios(c)
      [] stage = "iothreads" -> appendIOThreads(c)
      [] stage = "incoming" -> appendIncoming(c)
      [] stage = "pidfile" -> appendPidFile(c)
      [] stage = "logfile" -> appendLogFile(c)
      [] stage = "fwcfg" -> appendFwCfg(c)
      [] stage = "sandbox" -> appendSeccompSandbox(c)

\* one stage on st = [c, err, errors, slots, panic]; errors is the number of
\* messages in the aggregated error of the device stage
Stage(stage, st) ==
    CASE stage = "smbios" ->
           CHOOSE o \in { [st EXCEPT !.c = r.c, !.err = r.err] :
                           r \in { appendSMBIOSInfo(st.c) } } : TRUE
      [] stage = "qmp" ->
           CHOOSE o \in { [st EXCEPT !.c = r.c, !.err = r.err] :
                           r \in { appendQMPSockets(st.c) } } : TRUE
      [] stage = "devices" ->
           CHOOSE o \in { [c |-> r.c, err |-> r.err, errors |-> r.errors, slots |-> r.slots,
                            panic |-> r.panic] :
                           r \in { appendDevices(st.c) } } : TRUE
      [] stage = "cpus" ->
           CHOOSE o \in { [st EXCEPT !.c = r.c, !.err = r.err] :
                           r \in { appendCPUs(st.c) } } : TRUE
      [] OTHER -> [st EXCEPT !.c = Plain(stage, st.c)]

\* the stages in order; an error of the SMBIOS, QMP, device or CPU stage
\* returns at once, a panic leaves the function where it happened
RECURSIVE RunStages(_, _)
RunStages(stages, st) ==
    IF stages = <<>> \/ st.err # "nil" \/ st.panic THEN st
    ELSE CHOOSE out \in { RunStages(Tail(stages), nxt) :
                            nxt \in { Stage(Head(stages), st) } } : TRUE

\* ConfigureParams: what the caller gets (an empty slice with an error) and
\* the Config the call leaves behind
ConfigureParamsOf(c0) ==
    CHOOSE out \in
      { [c |-> st.c,
         tokens |-> IF st.err = "nil" /\ ~st.panic THEN st.c.qemuParams ELSE <<>>,
         err |-> st.err, errors |-> st.errors, slots |-> st.slots, panic |-> st.panic] :
        st \in { RunStages(Stages, [c |-> c0, err |-> "nil", errors |-> 0, slots |-> <<>>,
                                     panic |-> FALSE]) } } : TRUE

(***************************************************************************)
(* The configurations explored                                             *)
(***************************************************************************)
MaxFill == 28
MaxExtra == 2
MaxRuns == 2

\* a device with the fields the renderers read; a field its kind does not
\* have keeps the zero value
Dev(kind, id, driver, addr, busName, transport) ==
    [kind |-> kind, ID |-> id, Driver |-> driver, Addr |-> addr, Bus |-> busName,
     Transport |-> transport, ROMFile |-> "", DisableModern |-> FALSE,
     MaxPorts |-> 0, Multifunction |-> FALSE, ChardevIDs |-> <<>>,
     Backend |-> "", Path |-> "", Name |-> "", DeviceID |-> "", ChardevID |-> "",
     MonMux |-> FALSE, Mux |-> "", Signal |-> ""]

\* a controller that leaves its address to the allocator
AutoSCSI == Dev("scsi", "scsi0", "", <<>>, "", "")

DeviceTemplates ==
    { AutoSCSI,
      Dev("scsi", "scsi1", "", <<"3", "1">>, "", ""),
      Dev("ide", "ide0", "ich9-ahci", <<>>, "", ""),
      Dev("usb", "usb0", "qemu-xhci", <<>>, "", ""),
      Dev("blk", "hd0", VirtioBlock, <<"7">>, "", ""),
      Dev("blk", "hd1", SCSIHD, <<>>, "scsi0.0", ""),
      Dev("rng", "rng0", VirtioRng, <<"3">>, "", ""),
      Dev("rng", "rng1", VirtioRng, <<>>, "pcie.0", ""),
      Dev("rng", "", VirtioRng, <<>>, "", ""),
      Dev("blk", "hd2", "", <<>>, "", ""),
      Dev("net", "net0", VirtioNet, <<"7">>, "pcie.0", ""),
      Dev("net", "net1", "e1000", <<"3", "0">>, "pcie.0", ""),
      [Dev("serial", "ser0", PCISerialDevice, <<"0", "x", "0", "7">>, "", "")
         EXCEPT !.MaxPorts = 2, !.ChardevIDs = <<"char0", "char1">>],
      Dev("rootport", "rp0", "", <<>>, "", ""),
      [Dev("char", "char0", "virtserialport", <<>>, "", "")
         EXCEPT !.Backend = Socket, !.DeviceID = "channel0", !.Path = "/tmp/char.sock",
                !.Name = "channel.0"],
      [Dev("legacyserial", "", "", <<>>, "", "") EXCEPT !.ChardevID = "serial0"],
      [Dev("monitor", "", "", <<>>, "", "") EXCEPT !.ChardevID = "mon0"],
      Dev("uefi", "code.fd", "", <<>>, "", "") }

CollectionOf ==
    [rootport |-> "PCIeRootPortDevices", scsi |-> "SCSIControllerDevices",
     ide |-> "IDEControllerDevices", usb |-> "USBControllerDevices",
     rng |-> "RngDevices", blk |-> "BlkDevices", net |-> "NetDevices",
     char |-> "CharDevices", legacyserial |-> "LegacySerialDevices",
     serial |-> "SerialDevices", monitor |-> "MonitorDevices",
     uefi |-> "UEFIFirmwareDevices"]

OfKind(devs, kind) == SelectSeq(devs, LAMBDA d : d.kind = kind)

NoSpice == [kind |-> "spice", ID |-> "", Port |-> "", TLSPort |-> ""]
NoTPM == [kind |-> "tpm", ID |-> "", Driver |-> "", Type |-> "", Path |-> ""]

\* no incoming migration
NoIncoming == [MigrationType |-> 0, FD |-> "", Exec |-> ""]

NoKnobs ==
    [HugePages |-> FALSE, FileBackedMem |-> FALSE, MemShared |-> FALSE, MemPrealloc |-> FALSE,
     NoGraphic |-> FALSE]

\* the global settings of a Config that sets nothing
EmptySettings ==
    [GOARCH |-> "amd64", Name |-> "", UUID |-> "", Machine |-> [Type |-> ""], CPUModel |-> "",
     SpiceDevice |-> NoSpice, TPM |-> NoTPM, SMBIOS |-> [UEFI |-> ""], QMPSockets |-> <<>>,
     Memory |-> [Size |-> "", Path |-> ""], RTC |-> [Clock |-> "", DriftFix |-> ""], GlobalParams |-> <<>>,
     PFlash |-> <<>>, VGA |-> "", Knobs |-> NoKnobs,
     Kernel |-> [Path |-> ""], Bios |-> "", IOThreads |-> <<>>,
     Incoming |-> NoIncoming, PidFile |-> "", LogFile |-> "", FwCfg |-> <<>>,
     SeccompSandbox |-> "", SMP |-> [CPUs |-> 0, MaxCPUs |-> 0]]

FullSettings ==
    [EmptySettings EXCEPT
       !.Name = "vm", !.UUID = "uuid", !.Machine = [Type |-> "q35"], !.CPUModel = "host",
       !.SMBIOS = [UEFI |-> "on"], !.QMPSockets = <<[Type |-> "unix", Name |-> "qmp.sock"]>>,
       !.Memory = [Size |-> "4096", Path |-> ""], !.RTC = [Clock |-> "host", DriftFix |-> "slew"],
       !.GlobalParams = <<"g1">>, !.PFlash = <<"p1">>, !.VGA = "none",
       !.Knobs = [NoKnobs EXCEPT !.NoGraphic = TRUE], !.Kernel = [Path |-> "vmlinuz"],
       !.Bios = "bios.bin", !.IOThreads = <<"io0">>, !.Incoming = [NoIncoming EXCEPT !.MigrationType = MigrationDefer],
       !.PidFile = "pid", !.LogFile = "log",
       !.FwCfg = <<[Name |-> "opt/a", File |-> "a.bin", Str |-> ""]>>,
       !.SeccompSandbox = "on", !.SMP = [CPUs |-> 2, MaxCPUs |-> 4]]

Profiles ==
    { EmptySettings,
      FullSettings,
      [FullSettings EXCEPT !.GOARCH = "s390x", !.SMP = [CPUs |-> 4, MaxCPUs |-> 2]],
      [EmptySettings EXCEPT
         !.GOARCH = "arm64", !.Machine = [Type |-> "virt"],
         !.SpiceDevice = [NoSpice EXCEPT !.Port = "5901"],
         !.TPM = [kind |-> "tpm", ID |-> "tpm0", Driver |-> "tpm-tis", Type |-> "emulator",
                  Path |-> "tpm0.sock"],
         !.QMPSockets = <<[Type |-> "unix", Name |-> ""]>>],
      [EmptySettings EXCEPT !.Machine = [Type |-> MachineTypeMicrovm], !.SMBIOS = [UEFI |-> "maybe"]],
      [FullSettings EXCEPT
         !.SpiceDevice = [NoSpice EXCEPT !.Port = "5901"],
         !.TPM = [kind |-> "tpm", ID |-> "tpm0", Driver |-> "tpm-tis", Type |-> "emulator",
                  Path |-> "tpm0.sock"]],
      [EmptySettings EXCEPT
         !.Memory = [Size |-> "4096", Path |-> ""],
         !.SpiceDevice = [NoSpice EXCEPT !.Port = "5901", !.TLSPort = "5902"]] }

\* identifiers of the fill controllers
FillIDs == <<
    "ctl01", "ctl02", "ctl03", "ctl04", "ctl05", "ctl06", "ctl07",
    "ctl08", "ctl09", "ctl10", "ctl11", "ctl12", "ctl13", "ctl14",
    "ctl15", "ctl16", "ctl17", "ctl18", "ctl19", "ctl20", "ctl21",
    "ctl22", "ctl23", "ctl24", "ctl25", "ctl26", "ctl27", "ctl28",
    "ctl29", "ctl30", "ctl31", "ctl32" >>

\* n controllers that leave their address to the allocator
Fill(n) == [i \in 1..n |-> Dev("scsi", FillIDs[i], "", <<>>, "", "")]

\* a freshly constructed Config: the settings, fill controllers without an
\* address followed by the caller's devices, each in the collection of its kind
MkConfig(settings, fill, extras) ==
    LET devs == Fill(fill) \o extras
    IN  [f \in DOMAIN settings \cup { CollectionOf[k] : k \in DOMAIN CollectionOf }
                \cup {"devices", "pciBusSlots", "qemuParams", "fds"} |->
           IF f \in DOMAIN settings THEN settings[f]
           ELSE IF f \in {"devices", "fds"} THEN <<>>
           ELSE IF f = "pciBusSlots" THEN EmptyBus
           ELSE IF f = "qemuParams" THEN <<>>
           ELSE OfKind(devs, CHOOSE k \in DOMAIN CollectionOf : CollectionOf[k] = f)]

FillCounts == {0} \cup ((MaxFill - 2)..MaxFill)

\* sequences of up to MaxExtra distinct devices
ExtraSeqs ==
    UNION { { x \in [1..n -> DeviceTemplates] : \A i, j \in 1..n : i # j => x[i] # x[j] }
            : n \in 0..MaxExtra }

NoResult == [tokens |-> <<>>, err |-> "nil", errors |-> 0, slots |-> <<>>, panic |-> FALSE]

IdleConfig == MkConfig(EmptySettings, 0, <<>>)

\* values of the CPUs and MaxCPUs fields
MaxCPUCount == 2

\* the full settings with every pair of CPU counts
SMPVariants ==
    { [FullSettings EXCEPT !.SMP = [CPUs |-> a, MaxCPUs |-> b]] :
        a \in 0..MaxCPUCount, b \in 0..MaxCPUCount }

\* the full settings with valid, invalid and unset RTC settings
RTCVariants ==
    { [FullSettings EXCEPT !.RTC = r] :
        r \in { [Clock |-> "vm", DriftFix |-> "none"], [Clock |-> "host", DriftFix |-> "bogus"],
                [Clock |-> "bogus", DriftFix |-> "slew"], [Clock |-> "", DriftFix |-> ""] } }

\* firmware-config entries: two valid ones, then one without a name, one
\* with both File and Str, one with neither
FwCfgEntries ==
    { [Name |-> "opt/a", File |-> "a.bin", Str |-> ""],
      [Name |-> "opt/b", File |-> "", Str |-> "b"],
      [Name |-> "", File |-> "c.bin", Str |-> ""],
      [Name |-> "opt/d", File |-> "d.bin", Str |-> "d"],
      [Name |-> "opt/e", File |-> "", Str |-> ""] }

MaxFwCfg == 2

\* the full settings with up to MaxFwCfg firmware-config entries
FwCfgVariants ==
    { [FullSettings EXCEPT !.FwCfg = fs] :
        fs \in UNION { [1..n -> FwCfgEntries] : n \in 0..MaxFwCfg } }

\* values of runtime.GOARCH for the memory backend
KnobArchs == {"amd64", "386", "ppc64le", "arm64", "s390x", "riscv64"}

\* memory and knob settings on every host architecture and machine type
KnobVariants ==
    { [EmptySettings EXCEPT !.GOARCH = arch, !.Machine = [Type |-> mtype], !.Memory = mem,
                            !.Knobs = knobs] :
        arch \in KnobArchs, mtype \in {"", "q35", MachineTypeMicrovm},
        mem \in { [Size |-> "", Path |-> ""], [Size |-> "4096", Path |-> ""],
                  [Size |-> "4096", Path |-> "/mem"] },
        knobs \in { NoKnobs, [NoKnobs EXCEPT !.HugePages = TRUE, !.NoGraphic = TRUE],
                    [NoKnobs EXCEPT !.FileBackedMem = TRUE, !.MemShared = TRUE],
                    [NoKnobs EXCEPT !.MemPrealloc = TRUE] } }

\* a q35 machine, a CPU model with a feature flag and 4096 of memory
E2ESettings ==
    [EmptySettings EXCEPT !.Machine = [Type |-> "q35"], !.CPUModel = "qemu64,+x2apic",
                          !.Memory = [Size |-> "4096", Path |-> ""]]

\* an RNG device on the PCI bus with an explicit low address
E2ERng == Dev("rng", "rng0", VirtioRng, <<"3">>, "pcie.0", "")

\* the full settings with every kind of incoming migration, and one that
\* is none of them
IncomingVariants ==
    { [FullSettings EXCEPT !.Incoming = i] :
        i \in { [NoIncoming EXCEPT !.MigrationType = MigrationExec, !.Exec = "cat vm.img"],
                [NoIncoming EXCEPT !.MigrationType = MigrationFD, !.FD = "incoming"],
                [NoIncoming EXCEPT !.MigrationType = MigrationDefer + 1] } }

\* the full settings with capitalisations of on and off, and near misses
SMBIOSVariants ==
    { [FullSettings EXCEPT !.SMBIOS = [UEFI |-> u]] : u \in {"oN", "OFF", "Off", "0n", "onn", "of"} }

\* the settings explored with few devices
Variants ==
    SMPVariants \cup RTCVariants \cup FwCfgVariants \cup KnobVariants \cup {E2ESettings}
      \cup IncomingVariants \cup SMBIOSVariants

\* devices rendered one or two at a time.  Serial devices: virtio-serial
\* with a ROM file and ports, pci-serial with one and four ports, an unknown
\* Driver, pci-serial with three ports and without chardevs.  Character
\* devices: every Driver case and backend, the on/off options, one without a
\* Path.  Legacy serial and monitor devices: multiplexed, on a socket, by
\* name, by chardev, and the invalid combinations.  Network devices and
\* controllers whose address is past a 32-bit and past a 64-bit int or is
\* negative; a network driver that only begins like a virtio one
RenderTemplates ==
    { [Dev("serial", "serial0", VirtioSerial, <<>>, "", "")
         EXCEPT !.ROMFile = "efi-virtio.rom", !.DisableModern = TRUE, !.MaxPorts = 2],
      [Dev("serial", "ser1", PCISerialDevice, <<>>, "", "")
         EXCEPT !.MaxPorts = 1, !.ChardevIDs = <<"char0">>, !.Multifunction = TRUE],
      [Dev("serial", "ser4", PCISerialDevice, <<>>, "", "")
         EXCEPT !.MaxPorts = 4, !.ChardevIDs = <<"c0", "c1", "", "c3">>, !.ROMFile = "rom.bin"],
      Dev("serial", "s", "foo", <<"0", "x", "7">>, "", ""),
      [Dev("serial", "ser3", PCISerialDevice, <<>>, "", "") EXCEPT !.MaxPorts = 3,
                                                                  !.ChardevIDs = <<"c0">>],
      [Dev("serial", "ser5", PCISerialDevice, <<>>, "", "") EXCEPT !.MaxPorts = 1],
      [Dev("char", "char1", "", <<>>, "", "") EXCEPT !.Backend = Stdio, !.Mux = "on",
                                                     !.Signal = "off"],
      [Dev("char", "char2", LegacySerial, <<>>, "", "") EXCEPT !.Backend = File,
                                                                !.Path = "/tmp/serial.log"],
      [Dev("char", "char3", PCISerialDevice, <<>>, "", "") EXCEPT !.Backend = Socket,
                                                                   !.Path = "/tmp/pci.sock"],
      [Dev("char", "char4", VirtioSerial, <<>>, "serial0.0", "")
         EXCEPT !.Backend = Socket, !.Path = "/tmp/v.sock", !.DeviceID = "vs0",
                !.ROMFile = "rom.bin", !.DisableModern = TRUE],
      [Dev("char", "char5", "virtconsole", <<>>, "", "") EXCEPT !.Backend = Stdio,
                                                                 !.Mux = "maybe"],
      [Dev("char", "char6", "virtconsole", <<>>, "", "") EXCEPT !.Backend = Socket],
      [Dev("legacyserial", "", "", <<>>, "", "") EXCEPT !.MonMux = TRUE],
      [Dev("legacyserial", "", "", <<>>, "", "") EXCEPT !.Backend = Socket, !.Path = "/tmp/s.sock"],
      [Dev("legacyserial", "", "", <<>>, "", "") EXCEPT !.Name = "stdio"],
      [Dev("legacyserial", "", "", <<>>, "", "") EXCEPT !.Name = "stdio", !.ChardevID = "serial1"],
      Dev("legacyserial", "", "", <<>>, "", ""),
      [Dev("legacyserial", "", "", <<>>, "", "") EXCEPT !.Backend = File, !.Path = "/tmp/s.log"],
      [Dev("monitor", "", "", <<>>, "", "") EXCEPT !.Backend = Socket, !.Path = "/tmp/m.sock"],
      [Dev("monitor", "", "", <<>>, "", "") EXCEPT !.Name = "stdio"],
      [Dev("monitor", "", "", <<>>, "", "") EXCEPT !.Backend = Socket],
      Dev("monitor", "", "", <<>>, "", ""),
      Dev("net", "net2", "virtio-net-pci-x", <<"7">>, "pcie.0", ""),
      Dev("net", "net3", VirtioNet, TwoTo32, "", ""),
      Dev("net", "net4", VirtioNet, TwoTo63, "", ""),
      Dev("net", "net5", VirtioNet, <<"-", "1">>, "", ""),
      Dev("scsi", "scsi2", "", TwoTo32, "", ""),
      Dev("scsi", "scsi3", "", TwoTo63, "", "") }

\* the settings every one of them is rendered under: 64-bit and 32-bit PCI
\* hosts, the CCW host, the MMIO machine
RenderSettings ==
    { EmptySettings, [EmptySettings EXCEPT !.GOARCH = "386"],
      [EmptySettings EXCEPT !.GOARCH = "s390x"],
      [EmptySettings EXCEPT !.Machine = [Type |-> MachineTypeMicrovm]] }

\* one or two of them in a Config
RenderExtras ==
    { <<d>> : d \in RenderTemplates }
      \cup { p \in RenderTemplates \X RenderTemplates : p[1] # p[2] }

\* the devices of a variant: none, a valid one, an invalid one
VariantExtras ==
    { <<>>, <<E2ERng>>,
      <<Dev("rng", "", VirtioRng, <<>>, "", "")>> }

\* the Configs a caller constructs: any profile with up to MaxExtra devices,
\* nearly full buses (fill controllers) with at most one more device, and the
\* variants of the settings
Configs ==
    { MkConfig(p, 0, x) : p \in Profiles, x \in ExtraSeqs }
      \cup { MkConfig(EmptySettings, n, x) : n \in FillCounts, x \in { y \in ExtraSeqs : Len(y) <= 1 } }
      \cup { MkConfig(v, 0, x) : v \in Variants, x \in VariantExtras }
      \cup { MkConfig(p, 0, <<d>>) : p \in RenderSettings, d \in RenderTemplates }
      \cup { MkConfig(EmptySettings, 0, x) : x \in RenderExtras }

\* no Config under assembly
InitIdle == config = IdleConfig /\ result = NoResult /\ phase = 0

InitAsm ==
    /\ config \in Configs
    /\ result = NoResult
    /\ phase = 0

\* one call of ConfigureParams(config, logger) on the same Config value
ConfigureParams ==
    /\ phase < MaxRuns
    /\ ~result.panic
    /\ \E r \in { ConfigureParamsOf(config) } :
        /\ config' = r.c
        /\ result' = [tokens |-> r.tokens, err |-> r.err, errors |-> r.errors,
                      slots |-> r.slots, panic |-> r.panic]
        /\ phase' = phase + 1

NextAsm == ConfigureParams /\ UNCHANGED <<busVars, idxVars, trVars>>

(***************************************************************************)
(* One device rendered on its own: the transport its methods resolve and   *)
(* the fragments its QemuParams emits                                      *)
(***************************************************************************)
\* values of a Transport field: unset, the three constants, and a string
\* that is none of them (VirtioTransport is a string type)
Transports == {"", TransportPCI, TransportCCW, TransportMMIO, "vfio"}

\* values of runtime.GOARCH
Archs == {"amd64", "386", "s390x", "arm64"}

MachineTypes == {"", "q35", MachineTypeMicrovm}

\* the virtio devices that render per transport
ProbeKinds == {"rng", "scsi", "blk"}

ProbeDevice(kind, transport, disable) ==
    [Dev(kind, "dev0",
         IF kind = "rng" THEN VirtioRng ELSE IF kind = "blk" THEN VirtioBlock ELSE "",
         <<>>, "", transport)
       EXCEPT !.ROMFile = "rom.bin", !.DisableModern = disable]

ProbeConfig(arch, mtype) ==
    MkConfig([EmptySettings EXCEPT !.GOARCH = arch, !.Machine = [Type |-> mtype]], 0, <<>>)

NoOutput ==
    [done |-> FALSE, name |-> "", pci |-> FALSE, ccw |-> FALSE, modern |-> "",
     params |-> <<>>, slots |-> <<>>]

IdleProbe ==
    [transport |-> "", arch |-> "amd64", mtype |-> "", disable |-> FALSE, kind |-> "rng",
     out |-> NoOutput]

InitNoProbe == probe = IdleProbe

InitProbe ==
    probe \in [transport : Transports, arch : Archs, mtype : MachineTypes,
               disable : BOOLEAN, kind : ProbeKinds, out : {NoOutput}]

\* the device's transport methods and its QemuParams on a fresh Config
RenderDevice ==
    /\ ~probe.out.done
    /\ \E c \in { ProbeConfig(probe.arch, probe.mtype) } :
       \E d \in { ProbeDevice(probe.kind, probe.transport, probe.disable) } :
       \E r \in { QemuParams(d, c, c.pciBusSlots) } :
          probe' = [probe EXCEPT !.out =
                      [done |-> TRUE,
                       name |-> getName(d.Transport, c),
                       pci |-> isVirtioPCI(d.Transport, c),
                       ccw |-> isVirtioCCW(d.Transport, c),
                       modern |-> disableModern(d.Transport, c, d.DisableModern),
                       params |-> r.params, slots |-> r.slots]]

NextProbe == RenderDevice /\ UNCHANGED <<busVars, idxVars, asmVars>>

(***************************************************************************)
(* Specifications: one per component                                       *)
(***************************************************************************)
\* the allocator alone, on a bus of its own
InitBusOnly == InitBus /\ InitIndex /\ InitIdle /\ InitNoProbe

SpecBus == InitBusOnly /\ [][NextBus]_vars

\* the identifier registry alone
InitIndexOnly == InitIndex /\ InitBus /\ InitIdle /\ InitNoProbe

SpecIndex == InitIndexOnly /\ [][NextIndex]_vars

\* ConfigureParams on the Configs a caller constructs
InitConfigs == InitAsm /\ InitBus /\ InitIndex /\ InitNoProbe

SpecAsm == InitConfigs /\ [][NextAsm]_vars

\* one device under every transport, architecture and machine type
InitProbeOnly == InitProbe /\ InitBus /\ InitIndex /\ InitIdle

SpecTransport == InitProbeOnly /\ [][NextProbe]_vars

(***************************************************************************)
(* Properties of PCIBus (checked under SpecBus)                            *)
(***************************************************************************)
\* the slot a decimal address names, -1 when the address is not a decimal number
NamedSlot(addr) == parseBusAddrString(addr, IntSizeOf(HostArch))

\* s is what a top-down scan of the slots above PCISlotOffset finds on bus b:
\* the highest free one, or -1 when all of them are used
IsScanResult(b, s) ==
    IF \E t \in BusIndex : t > PCISlotOffset /\ ~b[t]
    THEN /\ s \in BusIndex /\ s > PCISlotOffset /\ ~b[s]
         /\ \A t \in BusIndex : t > s => b[t]
    ELSE s = -1

\* the bus after a call that returned s
MarkedAfter(b, s) == IF s \in BusIndex THEN [b EXCEPT ![s] = TRUE] ELSE b

\* slots 0, 1 and 2 are the reserved ones
Reserved == { t \in BusIndex : t < PCISlotOffset }

\* C1: at most one device per slot: over any sequence of GetSlot calls on one
\* bus, with explicit and empty addresses mixed, no non-negative slot number is
\* returned twice (the number of calls that returned a slot equals the number
\* of distinct slots returned, and a returned slot was free before its call)
C1_NoSlotReturnedTwice ==
    /\ Cardinality(returned) = nReturned
    /\ (last.op = "GetSlot" /\ last.slot >= 0) => ~last.pre[last.slot]

\* a GetSlot call asked for slot 7 when it was taken and returned another slot
C1_Witness ==
    /\ last.op = "GetSlot" /\ last.addr = <<"7">> /\ last.pre[7]
    /\ last.slot >= 0 /\ nReturned >= 3

\* C2: the slots returned by automatic calls (empty address) are strictly
\* descending from the top: each is below the slot of the previous automatic
\* call, the first one on an empty bus is 0x1e, and each is the highest slot
\* that is neither used nor reserved
C2_AutomaticDescending ==
    (last.op = "GetSlot" /\ last.addr = <<>> /\ last.slot >= 0) =>
        /\ last.slot < last.prevAuto
        /\ (last.pre = EmptyBus => last.slot = 30)
        /\ last.slot \notin Reserved /\ ~last.pre[last.slot]
        /\ \A t \in BusIndex \ Reserved : t > last.slot => last.pre[t]

\* an automatic call that had to skip a used slot below the previous automatic one
C2_Witness ==
    /\ last.op = "GetSlot" /\ last.addr = <<>> /\ last.slot >= 0
    /\ last.prevAuto < PCISlotMax /\ last.slot < last.prevAuto - 1

\* C3: on an empty allocator GetSlot with an explicit address naming slot S
\* returns exactly S and marks S used, for every S in 0..N-1
C3_ExplicitSlotOnEmptyBus ==
    (last.op = "GetSlot" /\ last.pre = EmptyBus /\ NamedSlot(last.addr) \in BusIndex) =>
        /\ last.slot = NamedSlot(last.addr)
        /\ bus[NamedSlot(last.addr)]

\* C4: an explicit address whose slot is already used does not fail: the call
\* falls through to the automatic search and returns the highest free slot
\* that is not reserved (a slot other than the requested one), and the
\* requested slot stays used for its first holder
C4_CollisionFallsThrough ==
    (last.op = "GetSlot" /\ NamedSlot(last.addr) \in BusIndex /\ last.pre[NamedSlot(last.addr)]) =>
        /\ ~last.panic
        /\ bus[NamedSlot(last.addr)]
        /\ (\E t \in BusIndex \ Reserved : ~last.pre[t]) =>
              /\ last.slot \in BusIndex \ Reserved
              /\ ~last.pre[last.slot]
              /\ \A t \in BusIndex \ Reserved : t > last.slot => last.pre[t]
              /\ last.slot # NamedSlot(last.addr)
              /\ bus = MarkedAfter(last.pre, last.slot)

\* C5: SetSlot on a slot that is already marked used fails with a collision
\* error and leaves the bus unchanged
C5_SetSlotCollisionFails ==
    (last.op = "SetSlot" /\ last.arg \in BusIndex /\ last.pre[last.arg]) =>
        /\ last.err # "nil"
        /\ bus = last.pre

\* C8: an address that is empty or is not a decimal integer (hex "0x5", PCI
\* "00:04.0") is not an error: GetSlot runs the automatic search, scanning
\* down from the top and returning the first free slot, 0x1e on an empty bus
NotAnInteger == { a \in BusAddrs : a = <<>> \/ ~Atoi(a, IntSizeOf(HostArch)).ok }

C8_UnparsedAddressSearches ==
    (last.op = "GetSlot" /\ last.addr \in NotAnInteger) =>
        /\ ~last.panic
        /\ IsScanResult(last.pre, last.slot)
        /\ bus = MarkedAfter(last.pre, last.slot)
        /\ (last.pre = EmptyBus => last.slot = 30)

\* the hex address 0x5 was given on a bus whose slot 5 is free and the call
\* returned the top free slot instead
C8_Witness ==
    /\ last.op = "GetSlot" /\ last.addr = <<"0", "x", "5">>
    /\ ~last.pre[5] /\ last.slot > 5 /\ ~bus[5]

(***************************************************************************)
(* Properties of QemuTypeIndex (checked under SpecIndex)                   *)
(***************************************************************************)
UsedBefore == lastIdx.pre[lastIdx.qtype].bits

\* what Next has to return for a category whose used set is S
NextOf(S) == IF S = {} THEN 0 ELSE SetMax(S) + 1

\* C9 as stated: Next(category) returns 0 when nothing is allocated for the
\* category and max(used)+1 otherwise, and marks the value used, for every key
C9_NextAnyCategory ==
    lastIdx.op = "Next" =>
        /\ lastIdx.ret = NextOf(UsedBefore)
        /\ lastIdx.ret \in qti[lastIdx.qtype].bits

\* C9 (amended): for a non-empty category Next returns 0 when nothing is
\* allocated for it and max(used)+1 otherwise, marks the value used and leaves
\* the other categories alone; for the empty category it returns -1 and
\* records nothing
C9_Next ==
    lastIdx.op = "Next" =>
        IF lastIdx.qtype = ""
        THEN lastIdx.ret = -1 /\ qti = lastIdx.pre
        ELSE /\ lastIdx.ret = NextOf(UsedBefore)
             /\ qti[lastIdx.qtype].bits = UsedBefore \cup {lastIdx.ret}
             /\ \A q \in QTypes \ {lastIdx.qtype} : qti[q] = lastIdx.pre[q]

\* Next on a category whose used set has a gap below its maximum
C9_Witness ==
    /\ lastIdx.op = "Next" /\ lastIdx.qtype = "drive"
    /\ UsedBefore # {} /\ 0 \notin UsedBefore
    /\ lastIdx.ret = SetMax(UsedBefore) + 1

\* C10: Set(category, index) records the index and succeeds when the index
\* is not yet used in the category, and fails leaving the registry unchanged
\* when it is present, so that after a successful Set(category, i) a second
\* Set(category, i) always fails (read for the keys the registry accepts: the
\* empty key is rejected on every call and records nothing)
C10_Set ==
    lastIdx.op = "Set" =>
        IF lastIdx.qtype = "" \/ lastIdx.index \in UsedBefore
        THEN lastIdx.err # "nil" /\ qti = lastIdx.pre
        ELSE /\ lastIdx.err = "nil"
             /\ qti[lastIdx.qtype].bits = UsedBefore \cup {lastIdx.index}
             /\ \A q \in QTypes \ {lastIdx.qtype} : qti[q] = lastIdx.pre[q]
             /\ QemuTypeIndex_Set(qti, lastIdx.qtype, lastIdx.index).err # "nil"

\* C11 as stated: a value returned by Next(category) was not returned by an
\* earlier Next(category) nor recorded by an earlier successful Set(category, .),
\* for every key
C11_NeverReusedAnyCategory ==
    lastIdx.op = "Next" =>
        <<lastIdx.qtype, lastIdx.ret>> \notin lastIdx.preHanded \cup lastIdx.preRecorded

\* C11 (amended): within one registry, for any interleaving of Next and Set
\* on any categories, an index Next hands out for a non-empty category was
\* neither handed out by an earlier Next nor recorded by an earlier successful
\* Set of that category, so it is never handed out again; Next on the empty
\* category hands out nothing and returns -1 every time
C11_NeverReused ==
    /\ lastIdx.op = "Next" =>
          IF lastIdx.qtype = ""
          THEN lastIdx.ret = -1 /\ qti = lastIdx.pre
          ELSE /\ lastIdx.ret >= 0
               /\ <<lastIdx.qtype, lastIdx.ret>> \notin lastIdx.preHanded \cup lastIdx.preRecorded
    /\ \A p \in handed : p[1] # "" => p \notin recorded /\ p[2] \in qti[p[1]].bits

\* Next on a category that holds indices from earlier Next and Set calls of
\* the same category, with calls on another category in between
C11_Witness ==
    /\ lastIdx.op = "Next" /\ lastIdx.qtype = "net" /\ lastIdx.ret >= 2
    /\ \E p \in lastIdx.preHanded : p[1] = "net"
    /\ \E p \in lastIdx.preRecorded : p[1] = "net"
    /\ \E p \in lastIdx.preHanded : p[1] = "drive"

(***************************************************************************)
(* Properties of ConfigureParams (checked under SpecAsm)                   *)
(***************************************************************************)
FirstRun == phase = 1 /\ ~result.panic

\* C6: exhaustion is surfaced as an error: when a device that needs a slot
\* finds none left, ConfigureParams returns an error instead of a command line
C6_ExhaustionIsAnError ==
    (FirstRun /\ \E i \in 1..Len(result.slots) : result.slots[i] = -1) =>
        result.err # "nil"

\* the pairs that place a device on a bus: they carry an addr= fragment
Placed(toks) == { i \in 1..Len(toks) : toks[i].addr # <<>> }

\* C7: the assembled invocation is collision-free: no two devices are
\* rendered with the same slot address on the same bus
C7_NoTwoDevicesOnOneSlot ==
    (FirstRun /\ result.err = "nil") =>
        \A i, j \in Placed(result.tokens) :
            (i # j /\ result.tokens[i].bus = result.tokens[j].bus)
                => result.tokens[i].addr # result.tokens[j].addr

(***************************************************************************)
(* Properties of the transport resolution (checked under SpecTransport)    *)
(***************************************************************************)
\* the declared policy, as a table of (override, architecture, machine type)
DeclaredTransport(override, arch, mtype) ==
    IF override # "" THEN override
    ELSE IF arch \in {"amd64", "386"} THEN (IF mtype = "microvm" THEN "mmio" ELSE "pci")
    ELSE IF arch = "s390x" THEN "ccw"
    ELSE "pci"

\* the -device pairs of the rendered device
DevicePairs == { i \in 1..Len(probe.out.params) : probe.out.params[i].flag = "-device" }

\* C12: transport resolution is a function of (override, architecture,
\* machine type) alone: with an empty override amd64 and 386 give PCI, or MMIO
\* when the machine type is microvm; s390x gives CCW whatever the machine
\* type; every other architecture gives PCI; a non-empty override is the
\* result; isVirtioPCI and isVirtioCCW answer for that same result
C12_TransportResolution ==
    probe.out.done =>
        /\ probe.out.name = DeclaredTransport(probe.transport, probe.arch, probe.mtype)
        /\ probe.out.pci = (DeclaredTransport(probe.transport, probe.arch, probe.mtype) = "pci")
        /\ probe.out.ccw = (DeclaredTransport(probe.transport, probe.arch, probe.mtype) = "ccw")

\* no override, a 386 host and a microvm machine resolved to MMIO
C12_Witness ==
    /\ probe.out.done /\ probe.transport = "" /\ probe.arch = "386"
    /\ probe.mtype = "microvm" /\ probe.out.name = "mmio"

\* C13: for every value of a device's Transport field the transport used for
\* rendering is PCI, CCW or MMIO, and the device is never rendered with an
\* empty driver name
C13_ThreeFamilies ==
    probe.out.done =>
        /\ probe.out.name \in {"pci", "ccw", "mmio"}
        /\ \A i \in DevicePairs : probe.out.params[i].driver # ""

\* C14: disableModern returns disable-modern=true (flag set) or
\* disable-modern=false (flag clear) exactly when the resolved transport is
\* PCI and the empty fragment for every other transport; the controller and
\* the virtio block device emit the fragment exactly when it is not empty
C14_DisableModernOnlyPCI ==
    probe.out.done =>
        /\ probe.out.modern =
              (IF probe.out.name # "pci" THEN ""
               ELSE IF probe.disable THEN "disable-modern=true" ELSE "disable-modern=false")
        /\ probe.kind \in {"scsi", "blk"} =>
              \A i \in DevicePairs :
                 \A f \in {"disable-modern=true", "disable-modern=false"} :
                    f \in probe.out.params[i].opts <=> f = probe.out.modern

\* a controller with the flag set on a microvm machine: MMIO, no fragment
C14_Witness ==
    /\ probe.out.done /\ probe.kind = "scsi" /\ probe.disable
    /\ probe.transport = "" /\ probe.out.name = "mmio" /\ probe.out.modern = ""

\* C15: the rendering decisions of a device agree with its resolved
\* transport: a slot is allocated and addr= emitted only under PCI, devno=
\* only under CCW, romfile= and disable-modern only under PCI
C15_RenderingAgrees ==
    probe.out.done =>
        /\ probe.out.slots # <<>> => probe.out.name = "pci"
        /\ \A i \in DevicePairs :
             /\ probe.out.params[i].addr # <<>> => probe.out.name = "pci"
             /\ "devno" \in probe.out.params[i].opts => probe.out.name = "ccw"
             /\ probe.out.params[i].opts
                   \cap {"romfile", "disable-modern=true", "disable-modern=false"} # {}
                 => probe.out.name = "pci"

(***************************************************************************)
(* Properties of the device stage and of the token order (SpecAsm)         *)
(***************************************************************************)
ControllerCats == {"scsi", "ide", "usb", "rootport"}

OtherDeviceCats == {"rng", "blk", "net", "char", "legacyserial", "serial", "monitor", "uefi"}

\* the positions of the tokens of the given categories in a token sequence
At(toks, cats) == { i \in 1..Len(toks) : toks[i].cat \in cats }

\* the place of a category in an order (a sequence of sets of categories)
RankIn(order, cat) == CHOOSE k \in 1..Len(order) : cat \in order[k]

Listed(order) == UNION { order[k] : k \in 1..Len(order) }

\* no token of an earlier place of the order follows a token of a later one
Ordered(toks, order) ==
    \A i, j \in At(toks, Listed(order)) :
        i < j => RankIn(order, toks[i].cat) <= RankIn(order, toks[j].cat)

\* C16: controllers before their dependents: in the sequence ConfigureParams
\* returns for a Config, every token of a SCSI, IDE or USB controller or PCIe
\* root port comes before every token of a block device
C16_ControllersBeforeBlock ==
    FirstRun =>
        \A i \in At(result.tokens, ControllerCats) :
            \A j \in At(result.tokens, {"blk"}) : i < j

\* a command line with a controller and a block device
C16_Witness ==
    /\ FirstRun /\ result.err = "nil"
    /\ At(result.tokens, {"scsi", "ide", "usb"}) # {}
    /\ At(result.tokens, {"blk"}) # {}

\* the sub-order of the devices block as C17 states it
DeclaredSubOrder ==
    << ControllerCats, {"blk"}, {"char"}, {"legacyserial"}, {"monitor"}, {"net"}, {"rng"},
       {"serial"}, {"uefi"} >>

\* the sub-order of the devices block: the order of the fields of Config
FieldSubOrder ==
    << ControllerCats, {"rng"}, {"blk"}, {"net"}, {"char"}, {"legacyserial"}, {"serial"},
       {"monitor"}, {"uefi"} >>

\* C17 as stated: controllers and root ports first, then block, character,
\* legacy-serial, monitor, network, RNG, generic-serial and firmware devices
C17_DeclaredSubOrder == FirstRun => Ordered(result.tokens, DeclaredSubOrder)

\* C17 (amended): within the devices block the controllers and root ports
\* come first, then RNG, block, network, character, legacy-serial,
\* generic-serial, monitor and firmware-flash devices: every RNG token
\* precedes every block token, which precedes every network token, and so on
C17_SubOrder == FirstRun => Ordered(result.tokens, FieldSubOrder)

\* a command line with an RNG device in front of a block device
C17_Witness ==
    /\ FirstRun /\ result.err = "nil"
    /\ \E i \in At(result.tokens, {"rng"}) : \E j \in At(result.tokens, {"blk"}) : i < j

\* the top-level order as C18 states it
DeclaredTopOrder ==
    << {"name", "uuid"}, {"machine"}, {"cpu"}, {"spice"}, {"tpm"}, {"smbios"}, {"qmp"},
       {"memory"}, ControllerCats \cup OtherDeviceCats, {"rtc"}, {"global"}, {"pflash"},
       {"vga"}, {"knobs"}, {"kernel"}, {"bios"}, {"iothread"}, {"incoming"},
       {"pidfile", "logfile"}, {"fwcfg"}, {"sandbox"}, {"smp"} >>

\* the top-level order with the display and TPM devices at the head of the
\* devices block
EmittedTopOrder ==
    << {"name", "uuid"}, {"machine"}, {"cpu"}, {"smbios"}, {"qmp"}, {"memory"},
       {"spice"}, {"tpm"}, ControllerCats \cup OtherDeviceCats, {"rtc"}, {"global"},
       {"pflash"}, {"vga"}, {"knobs"}, {"kernel"}, {"bios"}, {"iothread"}, {"incoming"},
       {"pidfile", "logfile"}, {"fwcfg"}, {"sandbox"}, {"smp"} >>

\* C18 as stated: identity, machine, CPU model, display device, TPM device,
\* SMBIOS, QMP, memory size, devices, RTC, ... , sandbox, CPU topology last
C18_DeclaredTopOrder == FirstRun => Ordered(result.tokens, DeclaredTopOrder)

\* C18 (amended): the returned sequence follows the order identity, machine,
\* CPU model, SMBIOS tables, QMP sockets, memory size, the devices block
\* (opened by the display device and the TPM device, then the other
\* devices), RTC, global parameters, pflash images, VGA mode, knobs, kernel,
\* bios, IO threads, incoming migration, pid/log files, fw_cfg blobs, sandbox
\* and the CPU topology last; every token belongs to one of these categories
C18_TopOrder ==
    FirstRun =>
        /\ Ordered(result.tokens, EmittedTopOrder)
        /\ \A i \in 1..Len(result.tokens) : result.tokens[i].cat \in Listed(EmittedTopOrder)

\* a command line with display, TPM, memory, device, RTC and -smp tokens
C18_Witness ==
    /\ FirstRun /\ result.err = "nil"
    /\ \A cat \in {"name", "smbios", "memory", "spice", "tpm", "blk", "rtc", "fwcfg", "smp"} :
          At(result.tokens, {cat}) # {}

\* the devices of config.devices that fail (pass) Valid()
Invalid(devs) == { i \in 1..Len(devs) : ~Valid(devs[i]) }

\* the tokens device d left in a token sequence
TokensOf(toks, d) ==
    { i \in 1..Len(toks) :
        /\ toks[i].cat = d.kind
        /\ IF d.kind \in {"legacyserial", "monitor"}
           THEN toks[i].text = (IF d.kind = "legacyserial" /\ d.MonMux THEN "mon:stdio"
                                ELSE consoleValue(d))
           ELSE toks[i].id = d.ID }

\* C19: validation does not stop at the first failure: once the device stage
\* runs, every device is validated; the aggregated error counts exactly the
\* invalid devices; an invalid device leaves no token and takes no bus slot;
\* every valid device, before or after an invalid one, is rendered
C19_ValidationContinues ==
    (FirstRun /\ result.err \in {"nil", "devices", "cpus"}) =>
        /\ result.errors = Cardinality(Invalid(config.devices))
        /\ (result.err = "devices") <=> (Invalid(config.devices) # {})
        /\ \A i \in 1..Len(config.devices) :
              (i \in Invalid(config.devices))
                 <=> (TokensOf(config.qemuParams, config.devices[i]) = {})
        /\ Len(result.slots) =
              Cardinality({ i \in 1..Len(config.devices) :
                              i \notin Invalid(config.devices) /\ Allocates(config.devices[i]) })

\* an invalid device between two valid ones, both of them rendered
C19_Witness ==
    /\ FirstRun /\ result.err = "devices" /\ result.errors = 1
    /\ \E i, j, k \in 1..Len(config.devices) :
          /\ i < j /\ j < k /\ j \in Invalid(config.devices)
          /\ TokensOf(config.qemuParams, config.devices[i]) # {}
          /\ TokensOf(config.qemuParams, config.devices[k]) # {}

\* a device of the Config fails Valid(): one of a collection, or the display
\* or TPM device when it is set
HasInvalidDevice(c) ==
    \/ \E k \in DOMAIN CollectionOf :
          \E i \in 1..Len(c[CollectionOf[k]]) : ~Valid(c[CollectionOf[k]][i])
    \/ (c.SpiceDevice.Port # "" \/ c.SpiceDevice.TLSPort # "") /\ ~Valid(c.SpiceDevice)
    \/ c.TPM.ID # "" /\ ~Valid(c.TPM)

\* C20: all or nothing: when a device fails validation ConfigureParams
\* returns an error and an empty token sequence; whenever it returns an
\* error the token sequence is empty
C20_AllOrNothing ==
    FirstRun =>
        /\ HasInvalidDevice(config) => (result.err # "nil" /\ result.tokens = <<>>)
        /\ result.err # "nil" => result.tokens = <<>>

\* one invalid device among valid ones: tokens were produced, none returned
C20_Witness ==
    /\ FirstRun /\ result.err = "devices" /\ HasInvalidDevice(config)
    /\ config.qemuParams # <<>> /\ result.tokens = <<>>

\* the conditions under which every stage before the CPU stage succeeds
ReachesCPUs(c) ==
    /\ SMBIOSValid(c.SMBIOS)
    /\ \A i \in 1..Len(c.QMPSockets) : QMPValid(c.QMPSockets[i])
    /\ ~HasInvalidDevice(c)

BadCPUs(c) == c.SMP.MaxCPUs # 0 /\ c.SMP.MaxCPUs < c.SMP.CPUs

\* C21: a Config whose MaxCPUs is non-zero and lower than its CPUs makes
\* appendCPUs return an error and ConfigureParams fail with zero tokens, with
\* that error when the CPU stage is reached; when MaxCPUs is zero or at
\* least CPUs, appendCPUs raises no error
C21_BadCPUs ==
    FirstRun =>
        /\ (appendCPUs(config).err # "nil") <=> BadCPUs(config)
        /\ BadCPUs(config) => (result.err # "nil" /\ result.tokens = <<>>)
        /\ (BadCPUs(config) /\ ReachesCPUs(config)) => result.err = "cpus"
        /\ ~BadCPUs(config) => result.err # "cpus"

\* a run that rendered its devices and then failed in the CPU stage
C21_Witness ==
    /\ FirstRun /\ BadCPUs(config) /\ result.err = "cpus"
    /\ config.qemuParams # <<>> /\ result.tokens = <<>>

\* the RTC settings are set (not the zero value) and fail RTC.Valid()
HasInvalidRTC(c) == (c.RTC.Clock # "" \/ c.RTC.DriftFix # "") /\ ~RTCValid(c.RTC)

HasInvalidFwCfg(c) == \E i \in 1..Len(c.FwCfg) : ~FwCfgValid(c.FwCfg[i])

\* some configured element of the Config fails its validation
HasInvalidElement(c) ==
    \/ HasInvalidDevice(c)
    \/ ~SMBIOSValid(c.SMBIOS)
    \/ \E i \in 1..Len(c.QMPSockets) : ~QMPValid(c.QMPSockets[i])
    \/ HasInvalidFwCfg(c)
    \/ HasInvalidRTC(c)
    \/ BadCPUs(c)

\* C22: fail-closed everywhere: when any configured element of the Config
\* (a device, a QMP socket, an SMBIOS table, a firmware-config blob, the RTC
\* settings, the CPU topology) fails its validation, ConfigureParams returns
\* an error and no tokens
C22_FailClosed ==
    (FirstRun /\ HasInvalidElement(config)) => (result.err # "nil" /\ result.tokens = <<>>)

\* the slots the documentation leaves to automatic allocation: every index of
\* the array from PCISlotOffset up
NonReserved == { s \in BusIndex : s >= PCISlotOffset }

\* C27: the automatic search never returns slot 0, 1 or 2 and can return
\* every other slot of the bus, slot 3 included: it gives up only when no
\* slot from 3 up to the top slot is free, so an empty bus serves as many
\* automatic allocations as there are non-reserved slots
C27_AutoRange ==
    (last.op = "GetSlot" /\ last.addr = <<>> /\ ~last.panic) =>
        /\ last.slot \notin 0..(PCISlotOffset - 1)
        /\ last.slot = -1 => \A s \in NonReserved : last.pre[s]

\* C28: SetSlot and GetSlot never index the slot array outside its entries:
\* SetSlot returns an error for every slot number that is not an index of
\* the array, GetSlot with an explicit decimal address outside the array
\* falls back to the automatic search
C28_BoundsSafety ==
    /\ ~last.panic
    /\ (last.op = "SetSlot" /\ last.arg \notin BusIndex) => last.err # "nil"
    /\ (last.op = "GetSlot" /\ AllDigits(last.addr) /\ NamedSlot(last.addr) \notin BusIndex)
          => last.slot = AutoSearch(last.pre)

\* the slots a run took from the bus
Taken(slots) == { slots[i] : i \in 1..Len(slots) } \ {-1}

\* the second call of ConfigureParams on a Config whose first call returned
SecondRun == phase = 1 /\ phase' = 2 /\ ~result.panic /\ ~result'.panic

\* C24: the allocator state is valid for one run: when ConfigureParams runs a
\* second time on the same Config, the slots of the first run are still
\* marked used, the second run takes none of them again (it places its
\* devices on other slots), and, when the first run went through its device
\* stage with placed devices and no later error, the second run returns a
\* different result (other tokens, or another aggregated device error)
C24_SecondRunDoubleCounts ==
    [][SecondRun =>
         /\ \A s \in Taken(result.slots) : config.pciBusSlots[s] /\ config'.pciBusSlots[s]
         /\ Taken(result'.slots) \cap Taken(result.slots) = {}
         /\ (result.err \in {"nil", "devices"} /\ Taken(result.slots) # {}) =>
               \/ result'.tokens # result.tokens
               \/ result'.err # result.err
               \/ result'.errors # result.errors]_vars

\* after a second run that placed a device: more slots are marked on the bus
\* than the second run took
C24_Witness ==
    /\ phase = 2 /\ ~result.panic /\ result.err = "nil"
    /\ Taken(result.slots) # {}
    /\ { s \in BusIndex : config.pciBusSlots[s] } \ Taken(result.slots) # {}

\* the pairs of the memory backend in a token sequence: the -object of a
\* memory backend, the NUMA node and the machine property
BackendObjects(toks) ==
    { i \in 1..Len(toks) :
        toks[i].flag = "-object" /\ toks[i].text \in {"memory-backend-file", "memory-backend-ram"} }

NumaForm(toks) ==
    { i \in 1..Len(toks) : toks[i].flag = "-numa" /\ toks[i].text = "node,memdev=dimm1" }

MachineForm(toks) ==
    { i \in 1..Len(toks) : toks[i].flag = "-machine" /\ toks[i].text = "memory-backend=dimm1" }

\* C25: memory-backend form: with a non-empty Memory.Size the command line
\* holds exactly one memory-backend -object, followed at once by exactly one
\* of "-numa node,memdev=dimm1" and "-machine memory-backend=dimm1"; the NUMA
\* form is chosen iff the host architecture is amd64, 386, ppc64le or arm64
\* and the machine type is not microvm; with an empty Memory.Size none of
\* the three is emitted, whatever the knobs are
C25_MemoryBackendForm ==
    (FirstRun /\ result.err = "nil") =>
        LET toks == result.tokens
            numa == config.GOARCH \in {"amd64", "386", "ppc64le", "arm64"}
                      /\ config.Machine.Type # "microvm"
        IN  IF config.Memory.Size = ""
            THEN BackendObjects(toks) \cup NumaForm(toks) \cup MachineForm(toks) = {}
            ELSE \E i \in 1..Len(toks) :
                   /\ BackendObjects(toks) = {i}
                   /\ NumaForm(toks) \cup MachineForm(toks) = {i + 1}
                   /\ (i + 1 \in NumaForm(toks)) <=> numa

\* the machine form on an amd64 host: a microvm with memory
C25_Witness ==
    /\ FirstRun /\ result.err = "nil"
    /\ config.GOARCH = "amd64" /\ config.Machine.Type = "microvm" /\ config.Memory.Size # ""
    /\ MachineForm(result.tokens) # {}

\* the Config of the end-to-end scenario, before or after its run
E2EConfig == MkConfig(E2ESettings, 0, <<E2ERng>>)

IsE2E(c) ==
    \A f \in (DOMAIN c) \ {"devices", "pciBusSlots", "qemuParams", "fds"} : c[f] = E2EConfig[f]

\* the flag and category of every pair of a token sequence
Shape(toks) == [i \in 1..Len(toks) |-> <<toks[i].flag, toks[i].cat>>]

\* the RNG pairs of the scenario: the backend object, then the device that
\* refers to it by id and carries the requested slot in hexadecimal
E2ERngPairs(toks, i) ==
    /\ toks[i].driver = "rng-random" /\ toks[i].id = "rng0"
    /\ toks[i + 1].driver = "virtio-rng-pci" /\ toks[i + 1].id = "rng0"
    /\ toks[i + 1].addr = Hex02(3) /\ toks[i + 1].bus = "pcie.0"

\* C26 as stated: the scenario Config assembles to exactly the machine flag,
\* the CPU flag, the memory flag, the RNG backend -object and the RNG
\* -device, in this order and with no other token
C26_ExactlyFivePairs ==
    (FirstRun /\ IsE2E(config)) =>
        /\ result.err = "nil"
        /\ Shape(result.tokens) =
              << <<"-machine", "machine">>, <<"-cpu", "cpu">>, <<"-m", "memory">>,
                 <<"-object", "rng">>, <<"-device", "rng">> >>
        /\ E2ERngPairs(result.tokens, 4)

\* C26 (amended): the scenario Config assembles, on an amd64 host, to exactly
\* the machine flag, the CPU flag, the memory flag, the RNG backend -object,
\* the RNG -device referring to that object with the resolved hexadecimal
\* address, and then the memory-backend -object and the -numa node flag that
\* every Config with a memory size gets
C26_EndToEnd ==
    (FirstRun /\ IsE2E(config)) =>
        /\ result.err = "nil"
        /\ Shape(result.tokens) =
              << <<"-machine", "machine">>, <<"-cpu", "cpu">>, <<"-m", "memory">>,
                 <<"-object", "rng">>, <<"-device", "rng">>,
                 <<"-object", "knobs">>, <<"-numa", "knobs">> >>
        /\ result.tokens[1].text = "q35" /\ result.tokens[2].text = "qemu64,+x2apic"
        /\ result.tokens[3].text = "4096"
        /\ E2ERngPairs(result.tokens, 4)
        /\ result.tokens[6].text = "memory-backend-ram"
        /\ result.tokens[7].text = "node,memdev=dimm1"

\* the scenario Config after its run, the RNG device on slot 3
C26_Witness ==
    /\ FirstRun /\ IsE2E(config) /\ result.err = "nil"
    /\ result.slots = <<3>>

\* the SMBIOS table or a QMP socket of the Config fails its validation
FailsEarly(c) ==
    ~SMBIOSValid(c.SMBIOS) \/ \E i \in 1..Len(c.QMPSockets) : ~QMPValid(c.QMPSockets[i])

\* C29: early abort before the devices: when SMBIOS or QMP validation fails
\* ConfigureParams returns that error with an empty token sequence; no
\* device is validated or rendered, no bus slot is allocated and the
\* returned error says nothing about the devices
C29_EarlyAbort ==
    (FirstRun /\ FailsEarly(config)) =>
        /\ result.err = (IF ~SMBIOSValid(config.SMBIOS) THEN "smbios" ELSE "qmp")
        /\ result.tokens = <<>>
        /\ result.errors = 0
        /\ result.slots = <<>>
        /\ config.pciBusSlots = EmptyBus
        /\ \A i \in 1..Len(config.qemuParams) :
              config.qemuParams[i].cat \notin
                 ControllerCats \cup OtherDeviceCats \cup {"spice", "tpm"}

\* a QMP failure on a Config that also holds an invalid device and a device
\* that would take a slot
C29_Witness ==
    /\ FirstRun /\ result.err = "qmp"
    /\ HasInvalidDevice(config)
    /\ \E f \in DOMAIN CollectionOf :
          \E i \in 1..Len(config[CollectionOf[f]]) :
             Valid(config[CollectionOf[f]][i]) /\ Allocates(config[CollectionOf[f]][i])

\* the -fw_cfg values of a token sequence, in order
FwCfgValues(toks) ==
    LET sel == SelectSeq(toks, LAMBDA t : t.flag = "-fw_cfg")
    IN  [i \in 1..Len(sel) |-> sel[i].frags]

\* what one pair per valid entry amounts to: the entry's own name and its
\* file or string, for the valid entries in entry order
OwnValues(fs) ==
    LET ok == SelectSeq(fs, FwCfgValid)
    IN  [i \in 1..Len(ok) |-> FwCfgFrags(ok[i])]

\* C30: firmware-config blobs: the command line holds exactly one -fw_cfg
\* pair per valid entry of config.FwCfg, in entry order, each value holding
\* only that entry's own name and its file or string; invalid entries
\* contribute nothing
C30_OnePairPerEntry ==
    (FirstRun /\ result.err = "nil") => FwCfgValues(result.tokens) = OwnValues(config.FwCfg)

====
